---- MODULE Spec2Model ----
(***************************************************************************)
(* Holdings ledger, price store, price cache and portfolio enrichment of   *)
(* the portfolio tracker (storage.py, price_fetcher.py, app.py,            *)
(* config/symbol_groups.py, config/symbol_mappings.py).                    *)
(*                                                                         *)
(* Representation.  A symbol is a sequence of one-character strings, so    *)
(* that upper-casing and suffix tests are computed.  A float is an integer *)
(* number of thousandths; NaN and PosInf are the two non-finite floats and *)
(* None is Python's None.  A timestamp (time.time() and the ISO strings    *)
(* made from datetime.now()) is the value of the clock, in seconds.        *)
(***************************************************************************)
EXTENDS Integers, Sequences, FiniteSets, TLC

VARIABLES
    holdings,   \* rows of data/holdings.csv, in file order
    prices,     \* rows of data/prices.csv, in file order
    cache,      \* _price_cache: symbol -> {price, timestamp}
    clock,      \* wall clock, seconds
    ticks,      \* number of clock advances so far
    upd,        \* the update_price calls in progress, one per caller
    config,     \* PRICE_PROVIDER and the API keys read from the environment
    lastCall    \* the last completed call: operation, arguments, result

vars == <<holdings, prices, cache, clock, ticks, upd, config, lastCall>>

----------------------------------------------------------------------------
(* Bounds *)

MaxRows == 3
MaxPositions == 2
MaxTicks == 1
MaxFetch == 2

----------------------------------------------------------------------------
(* Values *)

None == -999999999
NaN == -888888888
PosInf == 888888888

AAPL == <<"A", "A", "P", "L">>
MSFT == <<"M", "S", "F", "T">>

SPY500 == <<"S", "P", "Y", "5", "0", "0">>
VIX == <<"^", "V", "I", "X">>

LedgerSymbols == {AAPL, MSFT}
Tags == {"broker1", "broker2"}
EditShares == {7}

HOLDINGS_HEADERS == {"symbol", "tag", "shares", "last_updated"}
PRICES_HEADERS == {"symbol", "last_price", "last_price_time"}

----------------------------------------------------------------------------
(* Strings *)

LowerLetters ==
    <<"a", "b", "c", "d", "e", "f", "g", "h", "i", "j", "k", "l", "m",
      "n", "o", "p", "q", "r", "s", "t", "u", "v", "w", "x", "y", "z">>

UpperLetters ==
    <<"A", "B", "C", "D", "E", "F", "G", "H", "I", "J", "K", "L", "M",
      "N", "O", "P", "Q", "R", "S", "T", "U", "V", "W", "X", "Y", "Z">>

Digits == {"0", "1", "2", "3", "4", "5", "6", "7", "8", "9"}

\* the upper-case letter of every lower-case letter
ToUpper ==
    [c \in {LowerLetters[i] : i \in 1..Len(LowerLetters)} |->
        UpperLetters[CHOOSE i \in 1..Len(LowerLetters) : LowerLetters[i] = c]]

\* str.upper() on one character
UpperChar(c) == IF c \in DOMAIN ToUpper THEN ToUpper[c] ELSE c

\* str.upper()
upper(s) == [i \in 1..Len(s) |-> UpperChar(s[i])]

EndsWith(s, suffix) ==
    /\ Len(s) >= Len(suffix)
    /\ SubSeq(s, Len(s) - Len(suffix) + 1, Len(s)) = suffix

----------------------------------------------------------------------------
(* config/symbol_groups.py, config/symbol_mappings.py *)

BRK_B == <<"B", "R", "K", ".", "B">>
BRK_DASH_B == <<"B", "R", "K", "-", "B">>
BRK_SPACE_B == <<"B", "R", "K", " ", "B">>
BRKB == <<"B", "R", "K", "B">>
BRK_BR == <<"B", "R", "K", ".", "B", "R">>
BRK_DASH_BR == <<"B", "R", "K", "-", "B", "R">>
BRK_A == <<"B", "R", "K", ".", "A">>
BRK_DASH_A == <<"B", "R", "K", "-", "A">>

SYMBOL_GROUPS ==
    {[canonical |-> BRK_B,
      aliases |-> {BRK_DASH_B, BRK_B, BRK_SPACE_B, BRKB},
      display |-> BRK_B]}

\* the keys of SYMBOL_ALIAS_TO_CANONICAL that lead to the group's canonical symbol
AliasKeys(g) == {upper(a) : a \in g.aliases}

\* the reverse lookup built when the module is loaded
SYMBOL_ALIAS_TO_CANONICAL ==
    [k \in UNION {AliasKeys(g) : g \in SYMBOL_GROUPS} |->
        (CHOOSE g \in SYMBOL_GROUPS : k \in AliasKeys(g)).canonical]

\* mutant: the lookup is made with the symbol as given
normalize_symbol_caseSensitive(symbol) ==
    IF symbol \in DOMAIN SYMBOL_ALIAS_TO_CANONICAL
    THEN SYMBOL_ALIAS_TO_CANONICAL[symbol]
    ELSE symbol

normalize_symbol(symbol) ==
    IF upper(symbol) \in DOMAIN SYMBOL_ALIAS_TO_CANONICAL
    THEN SYMBOL_ALIAS_TO_CANONICAL[upper(symbol)]
    ELSE symbol

get_display_symbol(symbol) ==
    LET canonical == normalize_symbol(symbol)
    IN IF \E g \in SYMBOL_GROUPS : g.canonical = canonical
       THEN (CHOOSE g \in SYMBOL_GROUPS : g.canonical = canonical).display
       ELSE canonical

\* SYMBOL_MAPPINGS: provider -> pairs <<symbol, provider spelling>>
SYMBOL_MAPPINGS(provider) ==
    CASE provider = "yfinance" ->
            {<<BRKB, BRK_DASH_B>>, <<BRK_SPACE_B, BRK_DASH_B>>, <<BRK_B, BRK_DASH_B>>,
             <<BRK_BR, BRK_DASH_BR>>, <<BRK_A, BRK_DASH_A>>}
      [] provider \in {"alpha_vantage", "iex_cloud"} ->
            {<<BRK_B, BRK_B>>, <<BRK_BR, BRK_BR>>, <<BRK_A, BRK_A>>}
      [] OTHER -> {}

get_provider_symbol(symbol, provider) ==
    IF \E m \in SYMBOL_MAPPINGS(provider) : m[1] = symbol
    THEN (CHOOSE m \in SYMBOL_MAPPINGS(provider) : m[1] = symbol)[2]
    ELSE symbol

----------------------------------------------------------------------------
(* storage.py: price store *)

\* read_prices: last_price is a float, or None for an empty cell
read_prices(file) ==
    [i \in 1..Len(file) |->
        [symbol |-> file[i].symbol,
         last_price |-> file[i].last_price,
         last_price_time |-> file[i].last_price_time]]

\* write_prices: one file row per record, the three header columns only
write_prices(prs) ==
    [i \in 1..Len(prs) |->
        [symbol |-> prs[i].symbol,
         last_price |-> prs[i].last_price,
         last_price_time |-> prs[i].last_price_time]]

\* index of the first record of the symbol, 0 when there is none
FirstPriceIdx(prs, symbol) ==
    IF \E i \in 1..Len(prs) : prs[i].symbol = symbol
    THEN CHOOSE i \in 1..Len(prs) :
            /\ prs[i].symbol = symbol
            /\ \A j \in 1..(i - 1) : prs[j].symbol # symbol
    ELSE 0

\* mutant: the record is appended whether or not the symbol has one
UpsertPrice_alwaysAppend(prs, symbol, last_price, last_price_time) ==
    Append(prs, [symbol |-> symbol, last_price |-> last_price,
                 last_price_time |-> last_price_time])

\* the find-or-append loop of update_price on the list it has read
UpsertPrice(prs, symbol, last_price, last_price_time) ==
    LET k == FirstPriceIdx(prs, symbol)
    IN IF k # 0
       THEN [prs EXCEPT ![k].last_price = last_price,
                        ![k].last_price_time = last_price_time]
       ELSE Append(prs, [symbol |-> symbol, last_price |-> last_price,
                         last_price_time |-> last_price_time])

\* update_price run without interruption; now is datetime.now()
update_price(file, symbol, last_price, last_price_time, now) ==
    LET t == IF last_price_time = None THEN now ELSE last_price_time
    IN write_prices(UpsertPrice(read_prices(file), symbol, last_price, t))

----------------------------------------------------------------------------
(* storage.py: holdings ledger *)

\* the record of the price map for a symbol: the last file row with it
PriceMapIdx(prs, symbol) ==
    IF \E i \in 1..Len(prs) : prs[i].symbol = symbol
    THEN CHOOSE i \in 1..Len(prs) :
            /\ prs[i].symbol = symbol
            /\ \A j \in (i + 1)..Len(prs) : prs[j].symbol # symbol
    ELSE 0

\* read_holdings: every ledger row joined with the price record of its raw symbol
read_holdings(hfile, pfile) ==
    LET prs == read_prices(pfile)
    IN [i \in 1..Len(hfile) |->
          LET k == PriceMapIdx(prs, hfile[i].symbol)
          IN [symbol |-> hfile[i].symbol,
              tag |-> hfile[i].tag,
              shares |-> hfile[i].shares,
              last_updated |-> hfile[i].last_updated,
              last_price |-> IF k = 0 THEN None ELSE prs[k].last_price,
              last_price_time |-> IF k = 0 THEN None ELSE prs[k].last_price_time]]

\* write_holdings: the four header columns of every row
write_holdings(hs) ==
    [i \in 1..Len(hs) |->
        [symbol |-> hs[i].symbol, tag |-> hs[i].tag,
         shares |-> hs[i].shares, last_updated |-> hs[i].last_updated]]

\* the row update_holdings and edit_holding append
NewRow(symbol, tag, shares, timestamp) ==
    [symbol |-> symbol, tag |-> tag, shares |-> shares,
     last_updated |-> timestamp, last_price |-> None, last_price_time |-> None]

\* mutant: the rows of the tag are not removed
KeepOtherTags_keepAll(hs, tag) == hs

\* the rows update_holdings keeps: those of another tag, in order
KeepOtherTags(hs, tag) ==
    LET Other(h) == h.tag # tag
    IN SelectSeq(hs, Other)

\* mutant: the rows are appended in reverse input order
PositionRows_reversed(positions, tag, timestamp) ==
    [i \in 1..Len(positions) |->
        NewRow(positions[Len(positions) + 1 - i].symbol, tag,
               positions[Len(positions) + 1 - i].shares, timestamp)]

\* the rows update_holdings appends: one per position, in input order
PositionRows(positions, tag, timestamp) ==
    [i \in 1..Len(positions) |->
        NewRow(positions[i].symbol, tag, positions[i].shares, timestamp)]

RECURSIVE PositionPriceUpdates(_, _, _, _)
\* the update_price calls of update_holdings' loop, from position k on
PositionPriceUpdates(pfile, positions, k, now) ==
    IF k > Len(positions) THEN pfile
    ELSE IF positions[k].last_price # None
         THEN PositionPriceUpdates(
                  update_price(pfile, positions[k].symbol,
                               positions[k].last_price, None, now),
                  positions, k + 1, now)
         ELSE PositionPriceUpdates(pfile, positions, k + 1, now)

\* update_holdings(positions, tag): the ledger file it writes
UpdateHoldingsFile(hfile, pfile, positions, tag, now) ==
    write_holdings(KeepOtherTags(read_holdings(hfile, pfile), tag)
                   \o PositionRows(positions, tag, now))

\* index of the first row equal in symbol and tag, 0 when there is none
FirstHoldingIdx(hs, symbol, tag) ==
    IF \E i \in 1..Len(hs) : hs[i].symbol = symbol /\ hs[i].tag = tag
    THEN CHOOSE i \in 1..Len(hs) :
            /\ hs[i].symbol = symbol /\ hs[i].tag = tag
            /\ \A j \in 1..(i - 1) : ~(hs[j].symbol = symbol /\ hs[j].tag = tag)
    ELSE 0

\* mutant: a new row is appended whether or not a row matches
EditHoldingFile_alwaysAppend(hfile, pfile, symbol, tag, shares, now) ==
    write_holdings(Append(read_holdings(hfile, pfile),
                          NewRow(symbol, tag, shares, now)))

\* mutant: every matching row is updated, not only the first
EditHoldingFile_allMatches(hfile, pfile, symbol, tag, shares, now) ==
    LET hs == read_holdings(hfile, pfile)
    IN write_holdings(
         IF \E i \in 1..Len(hs) : hs[i].symbol = symbol /\ hs[i].tag = tag
         THEN [i \in 1..Len(hs) |->
                 IF hs[i].symbol = symbol /\ hs[i].tag = tag
                 THEN [hs[i] EXCEPT !.shares = shares, !.last_updated = now]
                 ELSE hs[i]]
         ELSE Append(hs, NewRow(symbol, tag, shares, now)))

\* edit_holding(symbol, tag, shares): the ledger file it writes
EditHoldingFile(hfile, pfile, symbol, tag, shares, now) ==
    LET hs == read_holdings(hfile, pfile)
        k == FirstHoldingIdx(hs, symbol, tag)
    IN write_holdings(
         IF k # 0
         THEN [hs EXCEPT ![k].shares = shares, ![k].last_updated = now]
         ELSE Append(hs, NewRow(symbol, tag, shares, now)))

----------------------------------------------------------------------------
(* price_fetcher.py: cache and providers *)

CACHE_EXPIRY_SECONDS == 600
max_retries == 3

\* what a provider's answer holds for one symbol, besides a number:
\* no entry for the symbol, or an entry whose reading raises
Omitted == -777777777
Error == -666666666

SpecialChars == {"$", "^", "=", "&", "|", "(", ")"}

HasSpecialChar(symbol) == \E i \in 1..Len(symbol) : symbol[i] \in SpecialChars

is_option(symbol) ==
    \/ Len(symbol) > 0 /\ symbol[Len(symbol)] \in Digits
    \/ EndsWith(upper(symbol), <<"C", "A", "L", "L">>)
    \/ EndsWith(upper(symbol), <<"P", "U", "T">>)

\* the set of elements of a sequence
Elements(seq) == {seq[i] : i \in 1..Len(seq)}

\* mutant: an entry never expires
CacheHit_neverExpires(c, symbol, now) == symbol \in DOMAIN c

\* mutant: a cached 0.0 is not served, the symbol is fetched again
CacheHit_notTheSentinel(c, symbol, now) ==
    /\ symbol \in DOMAIN c
    /\ now - c[symbol].timestamp < CACHE_EXPIRY_SECONDS
    /\ c[symbol].price # 0

\* line 92: the symbol has an entry younger than the expiry
CacheHit(c, symbol, now) ==
    /\ symbol \in DOMAIN c
    /\ now - c[symbol].timestamp < CACHE_EXPIRY_SECONDS

\* lines 88-90: the symbols the cache check looks at
YfConsidered(symbols, skip_options) ==
    LET Kept(x) == ~(skip_options /\ is_option(x))
    IN SelectSeq(symbols, Kept)

\* lines 91-95: symbols_to_fetch
YfToFetch(c, symbols, skip_options, now) ==
    LET Miss(x) == ~CacheHit(c, x, now)
    IN SelectSeq(YfConsidered(symbols, skip_options), Miss)

\* lines 105-116: the price taken from a downloaded frame for one symbol
YfPrice(q) ==
    IF q = Omitted \/ q = Error THEN 0
    ELSE IF q > 0 /\ q < PosInf THEN q ELSE 0

\* lines 101-128: the price of a symbol to fetch; outcome.fails attempts
\* raise before one answers with outcome.data, a quote per provider symbol
YfFetchedPrice(x, outcome) ==
    IF outcome.fails >= max_retries THEN 0
    ELSE YfPrice(outcome.data[get_provider_symbol(x, "yfinance")])

\* mutant: a fetch that exhausted its retries keeps the quote of an entry
\* that has one
YfCacheAfter_keepsOldQuote(c, fetchSet, now, outcome) ==
    [x \in DOMAIN c \cup fetchSet |->
        IF x \in fetchSet
        THEN IF outcome.fails >= max_retries /\ x \in DOMAIN c
             THEN c[x]
             ELSE [price |-> YfFetchedPrice(x, outcome), timestamp |-> now]
        ELSE c[x]]

\* mutant: nothing is cached for a fetch that exhausted its retries
YfCacheAfter_notOnFailure(c, fetchSet, now, outcome) ==
    IF outcome.fails >= max_retries THEN c
    ELSE [x \in DOMAIN c \cup fetchSet |->
             IF x \in fetchSet
             THEN [price |-> YfFetchedPrice(x, outcome), timestamp |-> now]
             ELSE c[x]]

\* lines 117-119, 127-128: the cache when the call returns
YfCacheAfter(c, fetchSet, now, outcome) ==
    [x \in DOMAIN c \cup fetchSet |->
        IF x \in fetchSet
        THEN [price |-> YfFetchedPrice(x, outcome), timestamp |-> now]
        ELSE c[x]]

\* lines 100-130: the number of yf.download calls
YfRequests(toFetch, outcome) ==
    IF toFetch = <<>> THEN 0
    ELSE IF outcome.fails >= max_retries THEN max_retries
    ELSE outcome.fails + 1

\* mutant: the prices found in the cache are left out of the result
YfFetch_missesOnly(c, considered, toFetch, fetchSet, now, outcome) ==
    [raised |-> FALSE,
     prices |-> [x \in fetchSet |-> YfFetchedPrice(x, outcome)],
     cache |-> YfCacheAfter(c, fetchSet, now, outcome),
     fetched |-> toFetch,
     requests |-> YfRequests(toFetch, outcome),
     exhausted |-> toFetch # <<>> /\ outcome.fails >= max_retries,
     unserved |-> {x \in fetchSet :
                     \/ outcome.fails >= max_retries
                     \/ outcome.data[get_provider_symbol(x, "yfinance")] \in {Omitted, Error}}]

\* lines 97-131: the result on the symbols to fetch
YfFetch(c, considered, toFetch, fetchSet, now, outcome) ==
    [raised |-> FALSE,
     prices |-> [x \in considered |->
                    IF x \in fetchSet THEN YfFetchedPrice(x, outcome) ELSE c[x].price],
     cache |-> YfCacheAfter(c, fetchSet, now, outcome),
     fetched |-> toFetch,
     requests |-> YfRequests(toFetch, outcome),
     exhausted |-> toFetch # <<>> /\ outcome.fails >= max_retries,
     unserved |-> {x \in fetchSet :
                     \/ outcome.fails >= max_retries
                     \/ outcome.data[get_provider_symbol(x, "yfinance")] \in {Omitted, Error}}]

\* fetch_prices_yfinance
fetch_prices_yfinance(c, symbols, skip_options, now, outcome) ==
    YfFetch(c, Elements(YfConsidered(symbols, skip_options)),
            YfToFetch(c, symbols, skip_options, now),
            Elements(YfToFetch(c, symbols, skip_options, now)), now, outcome)

\* the result of a fetch that raises ValueError before any request
MissingKey(c) ==
    [raised |-> TRUE, prices |-> <<>>, cache |-> c, fetched |-> <<>>,
     requests |-> 0, exhausted |-> FALSE, unserved |-> {}]

\* mutant: a request that fails makes the call raise
fetch_prices_alpha_vantage_raises(cfg, c, symbols, outcome) ==
    LET Quote(x) == outcome.data[get_provider_symbol(x, "alpha_vantage")]
    IN IF ~cfg.ALPHA_VANTAGE_API_KEY
          \/ \E x \in Elements(symbols) : Quote(x) = Error
       THEN MissingKey(c)
       ELSE [raised |-> FALSE,
             prices |-> [x \in Elements(symbols) |->
                            IF Quote(x) = Omitted THEN 0 ELSE Quote(x)],
             cache |-> c,
             fetched |-> symbols,
             requests |-> Len(symbols),
             exhausted |-> FALSE,
             unserved |-> {x \in Elements(symbols) : Quote(x) \in {Omitted, Error}}]

\* fetch_prices_alpha_vantage: one request per symbol
fetch_prices_alpha_vantage(cfg, c, symbols, outcome) ==
    LET Quote(x) == outcome.data[get_provider_symbol(x, "alpha_vantage")]
    IN IF ~cfg.ALPHA_VANTAGE_API_KEY THEN MissingKey(c)
       ELSE [raised |-> FALSE,
             prices |-> [x \in Elements(symbols) |->
                            IF Quote(x) \in {Omitted, Error} THEN 0 ELSE Quote(x)],
             cache |-> c,
             fetched |-> symbols,
             requests |-> Len(symbols),
             exhausted |-> FALSE,
             unserved |-> {x \in Elements(symbols) : Quote(x) \in {Omitted, Error}}]

\* mutant: the request is made without looking at the key
fetch_prices_iex_cloud_noKeyCheck(cfg, c, symbols, outcome) ==
    LET Quote(x) == outcome.data[get_provider_symbol(x, "iex_cloud")]
        failed == \/ outcome.fails > 0
                  \/ \E x \in Elements(symbols) : Quote(x) = Error
    IN [raised |-> FALSE,
        prices |-> [x \in Elements(symbols) |->
                       IF failed \/ Quote(x) = Omitted THEN 0 ELSE Quote(x)],
        cache |-> c,
        fetched |-> symbols,
        requests |-> 1,
        exhausted |-> FALSE,
        unserved |-> {x \in Elements(symbols) :
                        outcome.fails > 0 \/ Quote(x) \in {Omitted, Error}}]

\* fetch_prices_iex_cloud: one batched request, no retry
fetch_prices_iex_cloud(cfg, c, symbols, outcome) ==
    LET Quote(x) == outcome.data[get_provider_symbol(x, "iex_cloud")]
        failed == \/ outcome.fails > 0
                  \/ \E x \in Elements(symbols) : Quote(x) = Error
    IN IF ~cfg.IEX_CLOUD_API_KEY THEN MissingKey(c)
       ELSE [raised |-> FALSE,
             prices |-> [x \in Elements(symbols) |->
                            IF failed \/ Quote(x) = Omitted THEN 0 ELSE Quote(x)],
             cache |-> c,
             fetched |-> symbols,
             requests |-> 1,
             exhausted |-> FALSE,
             unserved |-> {x \in Elements(symbols) :
                             outcome.fails > 0 \/ Quote(x) \in {Omitted, Error}}]

\* lines 41-42: the symbols fetch_prices passes on
PassedOn(symbols, skip_options) ==
    LET Plain(x) == ~HasSpecialChar(x)
    IN IF skip_options THEN SelectSeq(symbols, Plain) ELSE symbols

\* fetch_prices: the provider functions are called without skip_options,
\* so fetch_prices_yfinance runs with its default, True
fetch_prices(cfg, c, symbols, skip_options, now, outcome) ==
    LET passed == PassedOn(symbols, skip_options)
    IN IF cfg.PRICE_PROVIDER = "alpha_vantage"
       THEN fetch_prices_alpha_vantage(cfg, c, passed, outcome)
       ELSE IF cfg.PRICE_PROVIDER = "iex_cloud"
       THEN fetch_prices_iex_cloud(cfg, c, passed, outcome)
       ELSE fetch_prices_yfinance(c, passed, TRUE, now, outcome)

\* the symbols fetch_prices asks the configured provider for
AskedFor(cfg, c, symbols, skip_options, now) ==
    IF cfg.PRICE_PROVIDER \in {"alpha_vantage", "iex_cloud"}
    THEN PassedOn(symbols, skip_options)
    ELSE YfToFetch(c, PassedOn(symbols, skip_options), TRUE, now)

\* the provider's spellings of the symbols asked for
ProviderSymbols(cfg, asked) ==
    {get_provider_symbol(asked[i],
        IF cfg.PRICE_PROVIDER \in {"alpha_vantage", "iex_cloud"}
        THEN cfg.PRICE_PROVIDER ELSE "yfinance") : i \in 1..Len(asked)}

----------------------------------------------------------------------------
(* Floats: shares are whole numbers, prices and values thousandths *)

\* shares * price, for shares >= 0
FMul(shares, price) ==
    IF price = NaN THEN NaN
    ELSE IF price = PosInf THEN (IF shares = 0 THEN NaN ELSE PosInf)
    ELSE shares * price

FAdd(a, b) ==
    IF a = NaN \/ b = NaN THEN NaN
    ELSE IF a = PosInf \/ b = PosInf THEN PosInf
    ELSE a + b

\* round(x, 2): to the nearest hundredth, a tie to the even hundredth
Round2(x) ==
    IF x = NaN \/ x = PosInf THEN x
    ELSE LET r == x % 10
             down == x - r
         IN IF r < 5 THEN down
            ELSE IF r > 5 THEN down + 10
            ELSE IF (down \div 10) % 2 = 0 THEN down ELSE down + 10

----------------------------------------------------------------------------
(* storage.py: filter_holdings, group_by_symbol *)

\* re.search(r'\d+$', symbol)
EndsInDigits(symbol) == Len(symbol) > 0 /\ symbol[Len(symbol)] \in Digits

\* mutant: an empty include list keeps no row
filter_holdings_emptyIncludeKeepsNone(hs, include_tags, exclude_tags, hide_options) ==
    LET Included(h) == h.tag \in include_tags
        NotExcluded(h) == h.tag \notin exclude_tags
        NotOption(h) == ~EndsInDigits(h.symbol)
        f1 == SelectSeq(hs, Included)
        f2 == IF exclude_tags # {} THEN SelectSeq(f1, NotExcluded) ELSE f1
    IN IF hide_options THEN SelectSeq(f2, NotOption) ELSE f2

\* filter_holdings; a tag list that is None or empty is the empty set
filter_holdings(hs, include_tags, exclude_tags, hide_options) ==
    LET Included(h) == h.tag \in include_tags
        NotExcluded(h) == h.tag \notin exclude_tags
        NotOption(h) == ~EndsInDigits(h.symbol)
        f1 == IF include_tags # {} THEN SelectSeq(hs, Included) ELSE hs
        f2 == IF exclude_tags # {} THEN SelectSeq(f1, NotExcluded) ELSE f1
    IN IF hide_options THEN SelectSeq(f2, NotOption) ELSE f2

\* index of the entry of a symbol in a list of groups, 0 when there is none
GroupIdx(groups, symbol) ==
    IF \E i \in 1..Len(groups) : groups[i].symbol = symbol
    THEN CHOOSE i \in 1..Len(groups) : groups[i].symbol = symbol
    ELSE 0

\* the characters of a timestamp in code point order
TimestampChars == <<"0", "1", "2", "3", "4", "5", "6", "7", "8", "9", ":">>

\* datetime.isoformat() of the time t seconds after the start of the hour:
\* the minutes and seconds fields, two digits each; the fields before them
\* are the same in every timestamp
isoformat(t) ==
    LET d(n) == TimestampChars[n + 1]
        mm == (t \div 60) % 60
        ss == t % 60
    IN <<d(mm \div 10), d(mm % 10), ":", d(ss \div 10), d(ss % 10)>>

\* str > str: at the first position where the strings differ a has the
\* greater character, or b is a proper prefix of a
StrGreater(a, b) ==
    LET code(c) == CHOOSE n \in 1..Len(TimestampChars) : TimestampChars[n] = c
    IN \E i \in 1..Len(a) :
          /\ \A j \in 1..(i - 1) : j <= Len(b) /\ a[j] = b[j]
          /\ i <= Len(b) => code(a[i]) > code(b[i])
          /\ i - 1 <= Len(b)

\* mutant: the group keeps the last_updated of its first row
LaterUpdate_keepsFirst(kept, last_updated) == kept

\* lines 277-279: the last_updated the group keeps when a row is added; both
\* must be strings
LaterUpdate(kept, last_updated) ==
    IF /\ last_updated # None
       /\ kept # None
       /\ StrGreater(isoformat(last_updated), isoformat(kept))
    THEN last_updated
    ELSE kept

RECURSIVE GroupBySymbolFrom(_, _, _)
\* the loop of group_by_symbol from row k on; acc is symbol_map, in insertion order
GroupBySymbolFrom(hs, k, acc) ==
    IF k > Len(hs) THEN acc
    ELSE LET h == hs[k]
             i == GroupIdx(acc, h.symbol)
         IN GroupBySymbolFrom(hs, k + 1,
              IF i = 0
              THEN Append(acc, [symbol |-> h.symbol, shares |-> h.shares,
                                tag |-> h.tag, tags |-> <<h.tag>>,
                                last_updated |-> h.last_updated,
                                last_price |-> h.last_price,
                                last_price_time |-> h.last_price_time])
              ELSE [acc EXCEPT
                      ![i].shares = @ + h.shares,
                      ![i].tags = IF h.tag \in Elements(@) THEN @ ELSE Append(@, h.tag),
                      ![i].last_updated = LaterUpdate(@, h.last_updated)])

\* mutant: rows are grouped by canonical symbol
group_by_symbol_byCanonical(hs) ==
    GroupBySymbolFrom([i \in 1..Len(hs) |->
                          [hs[i] EXCEPT !.symbol = normalize_symbol(@)]], 1, <<>>)

group_by_symbol(hs) == GroupBySymbolFrom(hs, 1, <<>>)

----------------------------------------------------------------------------
(* price_fetcher.py: get_portfolio_values *)

\* a holding as get_portfolio_values copies it; tags is empty when the
\* holding has no such key
Copied(h) ==
    [symbol |-> h.symbol, shares |-> h.shares, tag |-> h.tag,
     tags |-> IF "tags" \in DOMAIN h THEN h.tags ELSE <<>>,
     last_updated |-> h.last_updated,
     last_price |-> h.last_price, last_price_time |-> h.last_price_time]

\* mutant: a group carries the fields of its last member
GroupByCanonicalFrom_lastMember(hs, k, acc) ==
    LET Canon(j) == normalize_symbol(hs[j].symbol)
        IsFirst(j) == \A m \in 1..(j - 1) : Canon(m) # Canon(j)
        firsts == SelectSeq([j \in 1..Len(hs) |-> j], IsFirst)
        LastOf(j) == CHOOSE m \in j..Len(hs) :
                        /\ Canon(m) = Canon(j)
                        /\ \A n \in (m + 1)..Len(hs) : Canon(n) # Canon(j)
        Members(j) == {m \in 1..Len(hs) : Canon(m) = Canon(j)}
        shares[S \in SUBSET (1..Len(hs))] ==
            IF S = {} THEN 0
            ELSE LET m == CHOOSE x \in S : TRUE
                 IN hs[m].shares + shares[S \ {m}]
    IN [n \in 1..Len(firsts) |->
           [Copied(hs[LastOf(firsts[n])])
               EXCEPT !.symbol = Canon(firsts[n]),
                      !.shares = shares[Members(firsts[n])]]]

\* mutant: a group keeps the shares of its first member
GroupByCanonicalFrom_firstShares(hs, k, acc) ==
    LET IsFirst(j) == \A m \in 1..(j - 1) :
                         normalize_symbol(hs[m].symbol) # normalize_symbol(hs[j].symbol)
        firsts == SelectSeq([j \in 1..Len(hs) |-> j], IsFirst)
    IN [n \in 1..Len(firsts) |->
           [Copied(hs[firsts[n]]) EXCEPT !.symbol = normalize_symbol(hs[firsts[n]].symbol)]]

RECURSIVE GroupByCanonicalFrom(_, _, _)
\* lines 223-228 from holding k on; acc is grouped, in insertion order
GroupByCanonicalFrom(hs, k, acc) ==
    IF k > Len(hs) THEN acc
    ELSE LET canonical == normalize_symbol(hs[k].symbol)
             i == GroupIdx(acc, canonical)
         IN GroupByCanonicalFrom(hs, k + 1,
              IF i = 0
              THEN Append(acc, [Copied(hs[k]) EXCEPT !.symbol = canonical])
              ELSE [acc EXCEPT ![i].shares = @ + hs[k].shares])

GroupByCanonical(hs) == GroupByCanonicalFrom(hs, 1, <<>>)

\* line 263 negated: the holding's last_price is reused
Usable(g) == ~(g.last_price = None \/ g.last_price = 0)

NotUsable(g) == ~Usable(g)

SymbolsOf(groups) == [i \in 1..Len(groups) |-> groups[i].symbol]

\* mutant: only a missing last_price is fetched, a 0 is reused
GroupsToPrice_missingOnly(groups, force_refresh) ==
    LET Missing(g) == g.last_price = None
    IN IF force_refresh THEN groups ELSE SelectSeq(groups, Missing)

\* lines 229, 255-265: the groups whose symbols are passed to fetch_prices
GroupsToPrice(groups, force_refresh) ==
    IF force_refresh THEN groups ELSE SelectSeq(groups, NotUsable)

\* lines 258-271: the groups whose last_price is reused
GroupsReused(groups, force_refresh) ==
    IF force_refresh THEN <<>> ELSE SelectSeq(groups, Usable)

\* prices.get(symbol, 0.0)
PriceOr0(fetchedPrices, symbol) ==
    IF symbol \in DOMAIN fetchedPrices THEN fetchedPrices[symbol] ELSE 0

\* lines 248, 270, 290: the enriched row of a group
Enriched(g, price) ==
    [symbol |-> get_display_symbol(g.symbol), shares |-> g.shares, tag |-> g.tag,
     tags |-> g.tags, last_updated |-> g.last_updated,
     last_price |-> g.last_price, last_price_time |-> g.last_price_time,
     price |-> price, value |-> FMul(g.shares, price)]

\* mutant: the value is computed from the price the holding had before
FetchedRow_valueBeforeRefresh(g, fetchedPrices, now) ==
    [Enriched([g EXCEPT !.last_price = PriceOr0(fetchedPrices, g.symbol),
                        !.last_price_time = now],
              PriceOr0(fetchedPrices, g.symbol))
        EXCEPT !.value = IF g.last_price = None THEN 0
                         ELSE FMul(g.shares, g.last_price)]

\* lines 238-249, 279-291: the row of a group whose price was fetched
FetchedRow(g, fetchedPrices, now) ==
    Enriched([g EXCEPT !.last_price = PriceOr0(fetchedPrices, g.symbol),
                       !.last_price_time = now],
             PriceOr0(fetchedPrices, g.symbol))

\* lines 268-271: the row of a group whose last_price is reused
ReusedRow(g) == Enriched(g, g.last_price)

\* mutant: a record that exists keeps its price and its time
PersistPrices_newOnly(pfile, groups, k, fetchedPrices, now) ==
    LET New(g) == FirstPriceIdx(read_prices(pfile), g.symbol) = 0
        added == SelectSeq(groups, New)
    IN pfile \o [i \in 1..Len(added) |->
                    [symbol |-> added[i].symbol,
                     last_price |-> PriceOr0(fetchedPrices, added[i].symbol),
                     last_price_time |-> now]]

RECURSIVE PersistPrices(_, _, _, _, _)
\* the update_price calls of the loop over the fetched groups, from group k on
PersistPrices(pfile, groups, k, fetchedPrices, now) ==
    IF k > Len(groups) THEN pfile
    ELSE PersistPrices(
            update_price(pfile, groups[k].symbol,
                         PriceOr0(fetchedPrices, groups[k].symbol), now, now),
            groups, k + 1, fetchedPrices, now)

\* lines 231-293 once fetch_prices has returned r for the groups toPrice;
\* reused are the groups whose last_price is reused
ValuedRows(pfile, reused, toPrice, r, now) ==
    IF r.raised
    THEN [raised |-> TRUE, rows |-> <<>>, prices |-> pfile]
    ELSE [raised |-> FALSE,
          rows |-> [i \in 1..Len(reused) |-> ReusedRow(reused[i])]
                   \o [i \in 1..Len(toPrice) |-> FetchedRow(toPrice[i], r.prices, now)],
          prices |-> PersistPrices(pfile, toPrice, 1, r.prices, now)]

\* the result of fetch_prices when it is not called
NotFetched(c) ==
    [raised |-> FALSE, prices |-> <<>>, cache |-> c, fetched |-> <<>>,
     requests |-> 0, exhausted |-> FALSE, unserved |-> {}]

\* lines 233, 274-275: the fetch_prices call of get_portfolio_values, if it
\* makes one, for the groups toPrice
PortfolioFetch(cfg, c, toPrice, force_refresh, skip_options, now, outcome) ==
    IF ~force_refresh /\ toPrice = <<>>
    THEN NotFetched(c)
    ELSE fetch_prices(cfg, c, SymbolsOf(toPrice), skip_options, now, outcome)

\* mutant: the total is the value of the last row
SumValuesFrom_lastOnly(rows, k, acc) ==
    IF rows = <<>> THEN acc ELSE rows[Len(rows)].value

RECURSIVE SumValuesFrom(_, _, _)
\* sum(holding.get("value", 0) for ...): acc plus the values from row k on
SumValuesFrom(rows, k, acc) ==
    IF k > Len(rows) THEN acc
    ELSE SumValuesFrom(rows, k + 1, FAdd(acc, rows[k].value))

----------------------------------------------------------------------------
(* Inputs *)

\* a position as the extraction returns it, and one that carries a price
Positions ==
    {[symbol |-> AAPL, shares |-> 10, last_price |-> None],
     [symbol |-> MSFT, shares |-> 5, last_price |-> 150125]}

PositionLists ==
    UNION {[1..n -> Positions] : n \in 0..MaxPositions}

\* PRICE_PROVIDER defaults to yfinance, the API keys to the empty string
DefaultConfig ==
    [PRICE_PROVIDER |-> "yfinance",
     ALPHA_VANTAGE_API_KEY |-> FALSE, IEX_CLOUD_API_KEY |-> FALSE]

\* the environments: each provider, its key set or not
Configs ==
    {DefaultConfig,
     [PRICE_PROVIDER |-> "alpha_vantage",
      ALPHA_VANTAGE_API_KEY |-> TRUE, IEX_CLOUD_API_KEY |-> FALSE],
     [PRICE_PROVIDER |-> "alpha_vantage",
      ALPHA_VANTAGE_API_KEY |-> FALSE, IEX_CLOUD_API_KEY |-> FALSE],
     [PRICE_PROVIDER |-> "iex_cloud",
      ALPHA_VANTAGE_API_KEY |-> FALSE, IEX_CLOUD_API_KEY |-> TRUE],
     [PRICE_PROVIDER |-> "iex_cloud",
      ALPHA_VANTAGE_API_KEY |-> FALSE, IEX_CLOUD_API_KEY |-> FALSE]}

NoCall == [op |-> "none"]

NoUpdate == [pc |-> "idle"]

Callers == {1, 2}

----------------------------------------------------------------------------
(* State machine *)

Init ==
    /\ holdings = <<>>
    /\ prices = <<>>
    /\ cache = <<>>
    /\ clock = 0
    /\ ticks = 0
    /\ upd = [c \in Callers |-> NoUpdate]
    /\ config = DefaultConfig
    /\ lastCall = NoCall

\* time passes
Tick ==
    /\ ticks < MaxTicks
    /\ clock' = clock + 1
    /\ ticks' = ticks + 1
    /\ UNCHANGED <<holdings, prices, cache, upd, config, lastCall>>

update_holdings(positions, tag) ==
    /\ Len(KeepOtherTags(holdings, tag)) + Len(positions) <= MaxRows
    /\ holdings' = UpdateHoldingsFile(holdings, prices, positions, tag, clock)
    /\ prices' = PositionPriceUpdates(prices, positions, 1, clock)
    /\ lastCall' = [op |-> "update_holdings", positions |-> positions,
                    tag |-> tag, now |-> clock,
                    repeat |-> /\ lastCall.op = "update_holdings"
                               /\ lastCall.positions = positions
                               /\ lastCall.tag = tag]
    /\ UNCHANGED <<cache, clock, ticks, upd, config>>

edit_holding(symbol, tag, shares) ==
    /\ Len(holdings) < MaxRows
       \/ \E i \in 1..Len(holdings) :
             holdings[i].symbol = symbol /\ holdings[i].tag = tag
    /\ holdings' = EditHoldingFile(holdings, prices, symbol, tag, shares, clock)
    /\ lastCall' = [op |-> "edit_holding", symbol |-> symbol, tag |-> tag,
                    shares |-> shares, now |-> clock]
    /\ UNCHANGED <<prices, cache, clock, ticks, upd, config>>

NextLedger ==
    \/ Tick
    \/ \E positions \in PositionLists, tag \in Tags : update_holdings(positions, tag)
    \/ \E symbol \in LedgerSymbols, tag \in Tags, shares \in EditShares :
          edit_holding(symbol, tag, shares)

SpecLedger == Init /\ [][NextLedger]_vars

----------------------------------------------------------------------------
(* update_price as two steps, read the whole store then write the whole      *)
(* store, for callers that overlap                                           *)

PriceSymbols == {AAPL, MSFT}
StoredPrices == {150125, 0}

\* lines 146-153: the caller reads the store and fixes the price time
update_price_read(c, symbol, last_price, last_price_time) ==
    /\ upd[c].pc = "idle"
    /\ upd' = [upd EXCEPT ![c] =
                 [pc |-> "read", symbol |-> symbol, last_price |-> last_price,
                  last_price_time |-> IF last_price_time = None THEN clock
                                      ELSE last_price_time,
                  local |-> read_prices(prices)]]
    /\ UNCHANGED <<holdings, prices, cache, clock, ticks, config, lastCall>>

\* lines 155-172: find-or-append on the list read, then rewrite the store
update_price_write(c) ==
    /\ upd[c].pc = "read"
    /\ prices' = write_prices(UpsertPrice(upd[c].local, upd[c].symbol,
                                          upd[c].last_price, upd[c].last_price_time))
    /\ upd' = [upd EXCEPT ![c] = NoUpdate]
    /\ lastCall' = [op |-> "update_price", caller |-> c, symbol |-> upd[c].symbol,
                    last_price |-> upd[c].last_price,
                    stale |-> upd[c].local # read_prices(prices)]
    /\ UNCHANGED <<holdings, cache, clock, ticks, config>>

NextPrices ==
    \/ Tick
    \/ \E c \in Callers, symbol \in PriceSymbols, p \in StoredPrices, t \in {None, 0} :
          update_price_read(c, symbol, p, t)
    \/ \E c \in Callers : update_price_write(c)

SpecPrices == Init /\ [][NextPrices]_vars

----------------------------------------------------------------------------
(* Calls of fetch_prices *)

\* what a provider's answer may hold for a symbol
QuoteOutcomes == {150125, NaN, Omitted, Error}

\* a plain symbol, the canonical symbol of a group, an option, an index
FetchSymbolOrder == <<AAPL, BRK_B, SPY500, VIX>>

\* the lists of up to MaxFetch distinct symbols, in the order above
SymbolLists ==
    {[i \in 1..Len(idx) |-> FetchSymbolOrder[idx[i]]] :
        idx \in {ix \in UNION {[1..n -> 1..Len(FetchSymbolOrder)] : n \in 1..MaxFetch} :
                    \A i \in 1..(Len(ix) - 1) : ix[i] < ix[i + 1]}}

\* the provider's behaviour during one call, for the symbols asked for
Outcomes(asked) ==
    IF asked = <<>> THEN {[fails |-> 0, data |-> <<>>]}
    ELSE [fails : 0..(max_retries - 1),
          data : [ProviderSymbols(config, asked) -> QuoteOutcomes]]
         \cup {[fails |-> max_retries,
                data |-> [p \in ProviderSymbols(config, asked) |-> Error]]}

\* any environment
InitConfigured ==
    /\ holdings = <<>>
    /\ prices = <<>>
    /\ cache = <<>>
    /\ clock = 0
    /\ ticks = 0
    /\ upd = [c \in Callers |-> NoUpdate]
    /\ config \in Configs
    /\ lastCall = NoCall

\* One client makes the calls below: it makes a call once it has taken the
\* response of its previous one, which lastCall holds until then.
Idle == lastCall = NoCall

\* the client takes the response
Return ==
    /\ ~Idle
    /\ lastCall' = NoCall
    /\ UNCHANGED <<holdings, prices, cache, clock, ticks, upd, config>>

\* time passes: to just before, at, and just after the cache expiry
Elapse(d) ==
    /\ Idle
    /\ ticks < MaxTicks
    /\ clock' = clock + d
    /\ ticks' = ticks + 1
    /\ UNCHANGED <<holdings, prices, cache, upd, config, lastCall>>

ElapseSteps == {CACHE_EXPIRY_SECONDS - 1, CACHE_EXPIRY_SECONDS, CACHE_EXPIRY_SECONDS + 1}

fetch_prices_call(symbols, skip_options) ==
    /\ Idle
    /\ \E outcome \in Outcomes(AskedFor(config, cache, symbols, skip_options, clock)) :
      \E r \in {fetch_prices(config, cache, symbols, skip_options, clock, outcome)} :
           /\ cache' = r.cache
           /\ lastCall' = [op |-> "fetch_prices", symbols |-> symbols,
                           skip_options |-> skip_options, now |-> clock,
                           raised |-> r.raised, prices |-> r.prices,
                           fetched |-> r.fetched, requests |-> r.requests,
                           exhausted |-> r.exhausted, unserved |-> r.unserved]
           /\ UNCHANGED <<holdings, prices, clock, ticks, upd, config>>

clear_price_cache ==
    /\ Idle
    /\ cache' = <<>>
    /\ lastCall' = [op |-> "clear_price_cache"]
    /\ UNCHANGED <<holdings, prices, clock, ticks, upd, config>>

NextFetch ==
    \/ \E d \in ElapseSteps : Elapse(d)
    \/ \E symbols \in SymbolLists, skip_options \in BOOLEAN :
          fetch_prices_call(symbols, skip_options)
    \/ clear_price_cache
    \/ Return

SpecFetch == InitConfigured /\ [][NextFetch]_vars

----------------------------------------------------------------------------
(* app.py: upload, positions; and direct calls of get_portfolio_values *)

\* what the extraction may return for an image: nothing, one option, two
\* positions, two spellings of one canonical symbol
ExtractionResults ==
    {<<>>,
     <<[symbol |-> SPY500, shares |-> 5, last_price |-> None]>>,
     <<[symbol |-> AAPL, shares |-> 10, last_price |-> None],
       [symbol |-> BRKB, shares |-> 5, last_price |-> None]>>,
     <<[symbol |-> BRKB, shares |-> 5, last_price |-> None],
       [symbol |-> BRK_B, shares |-> 10, last_price |-> None]>>}

\* the query parameters of GET /positions: none, one tag included, one tag
\* excluded and rows grouped, options hidden and rows grouped
PositionQueries ==
    {[exclude |-> {}, include |-> {}, group_by |-> FALSE, hide_options |-> FALSE],
     [exclude |-> {}, include |-> {"broker1"}, group_by |-> FALSE, hide_options |-> FALSE],
     [exclude |-> {"broker1"}, include |-> {}, group_by |-> TRUE, hide_options |-> FALSE],
     [exclude |-> {}, include |-> {}, group_by |-> TRUE, hide_options |-> TRUE]}

\* a response of the extraction service that does not parse as a JSON array
\* of positions, and the responses that do
MalformedResponse == [parsed |-> FALSE]

ExtractionResponses ==
    {MalformedResponse} \cup {[parsed |-> TRUE, positions |-> p] : p \in ExtractionResults}

\* parser.py lines 227-256: the positions parsed, the empty list when parsing
\* raises
extract_positions_gemini(response) ==
    IF response.parsed THEN response.positions ELSE <<>>

\* mutant: the positions are stored whether or not there are any
process_image_storesEmpty(positions, tag) ==
    /\ Idle
    /\ Len(KeepOtherTags(holdings, tag)) + Len(positions) <= MaxRows
    /\ holdings' = UpdateHoldingsFile(holdings, prices, positions, tag, clock)
    /\ prices' = PositionPriceUpdates(prices, positions, 1, clock)
    /\ lastCall' = [op |-> "process_image", positions |-> positions,
                    tag |-> tag, now |-> clock, raised |-> FALSE]
    /\ UNCHANGED <<cache, clock, ticks, upd, config>>

\* process_image: an empty extraction is an error and the ledger is not written
process_image(positions, tag) ==
    /\ Idle
    /\ Len(KeepOtherTags(holdings, tag)) + Len(positions) <= MaxRows
    /\ IF positions = <<>>
       THEN /\ lastCall' = [op |-> "process_image", positions |-> positions,
                            tag |-> tag, now |-> clock, raised |-> TRUE]
            /\ UNCHANGED <<holdings, prices>>
       ELSE /\ holdings' = UpdateHoldingsFile(holdings, prices, positions, tag, clock)
            /\ prices' = PositionPriceUpdates(prices, positions, 1, clock)
            /\ lastCall' = [op |-> "process_image", positions |-> positions,
                            tag |-> tag, now |-> clock, raised |-> FALSE]
    /\ UNCHANGED <<cache, clock, ticks, upd, config>>

\* the provider's behaviour during one call of the application: the request
\* fails until the retries are exhausted, or answers at once
AppOutcomes(asked) == {o \in Outcomes(asked) : o.fails \in {0, max_retries}}

\* mutant: the group is held in the dict of its first holding
GroupDict_theHolding(k) == k

\* line 227: the dict that holds the group started by holding k of the
\* argument; {**h, ...} builds a dict of its own, 0, where k would be the
\* dict of holding k itself
GroupDict(k) == 0

\* the dicts of the argument once get_portfolio_values is over: lines 227-228
\* and 245-246, 286-287 write symbol, shares, last_price and last_price_time
\* into the dict that holds the group
ArgumentAfter(hs, groups, toPrice, r, now) ==
    [k \in 1..Len(hs) |->
        LET canonical == normalize_symbol(hs[k].symbol)
            first == \A m \in 1..(k - 1) : normalize_symbol(hs[m].symbol) # canonical
            fetched == /\ ~r.raised
                       /\ \E i \in 1..Len(toPrice) : toPrice[i].symbol = canonical
        IN IF first /\ GroupDict(k) = k
           THEN [hs[k] EXCEPT
                   !.symbol = canonical,
                   !.shares = groups[GroupIdx(groups, canonical)].shares,
                   !.last_price = IF fetched THEN PriceOr0(r.prices, canonical) ELSE @,
                   !.last_price_time = IF fetched THEN now ELSE @]
           ELSE hs[k]]

\* get_portfolio_values(hs, force_refresh, skip_options), called by op
Enrich(op, args, hs, force_refresh, skip_options) ==
    \E groups \in {GroupByCanonical(hs)} :
    \E toPrice \in {GroupsToPrice(groups, force_refresh)} :
    \E outcome \in AppOutcomes(AskedFor(config, cache, SymbolsOf(toPrice),
                                        skip_options, clock)) :
    \E r \in {PortfolioFetch(config, cache, toPrice, force_refresh, skip_options,
                             clock, outcome)} :
    \E v \in {ValuedRows(prices, GroupsReused(groups, force_refresh), toPrice,
                         r, clock)} :
       /\ cache' = r.cache
       /\ prices' = v.prices
       /\ lastCall' = [op |-> op, args |-> args, now |-> clock,
                       force_refresh |-> force_refresh,
                       skip_options |-> skip_options,
                       raised |-> v.raised,
                       positions |-> v.rows,
                       total_value |-> Round2(SumValuesFrom(v.rows, 1, 0)),
                       position_count |-> Len(v.rows),
                       asked |-> SymbolsOf(toPrice),
                       fetch |-> r,
                       argument |-> hs,
                       argument_after |-> ArgumentAfter(hs, groups, toPrice, r, clock)]

\* GET /positions
get_positions(q) ==
    /\ Idle
    /\ \E filtered \in {filter_holdings(read_holdings(holdings, prices),
                                       q.include, q.exclude, q.hide_options)} :
          Enrich("get_positions", q,
                 IF q.group_by THEN group_by_symbol(filtered) ELSE filtered,
                 FALSE, TRUE)
    /\ UNCHANGED <<holdings, clock, ticks, upd, config>>

\* get_portfolio_values called on the holdings read from the ledger
get_portfolio_values_call(force_refresh, skip_options) ==
    /\ Idle
    /\ Enrich("get_portfolio_values", [holdings |-> "read_holdings"],
              read_holdings(holdings, prices), force_refresh, skip_options)
    /\ UNCHANGED <<holdings, clock, ticks, upd, config>>

NextApp ==
    \/ \E response \in ExtractionResponses, tag \in Tags :
          process_image(extract_positions_gemini(response), tag)
    \/ \E q \in PositionQueries : get_positions(q)
    \/ \E force_refresh \in BOOLEAN, skip_options \in BOOLEAN :
          get_portfolio_values_call(force_refresh, skip_options)
    \/ Return

SpecApp == InitConfigured /\ [][NextApp]_vars

----------------------------------------------------------------------------
(* storage.py: filter_holdings and group_by_symbol applied to any ledger *)

AAPL_PUT == <<"A", "A", "P", "L", " ", "p", "u", "t">>

\* an option by its digits, two spellings of one group, an option by its suffix
ViewSymbols == {SPY500, BRKB, BRK_B, AAPL_PUT}

\* the rows of a ledger: those of broker1 hold 10 shares and were written at
\* 9, those of broker2 hold 5 shares and were written at 10
ViewRows ==
    {[symbol |-> s, tag |-> t,
      shares |-> IF t = "broker1" THEN 10 ELSE 5,
      last_updated |-> IF t = "broker1" THEN 9 ELSE 10] :
        s \in ViewSymbols, t \in Tags}

\* the ledgers of up to MaxRows rows, in any order, repeated rows included
ViewLedgers == UNION {[1..n -> ViewRows] : n \in 0..MaxRows}

InitViews ==
    /\ holdings \in ViewLedgers
    /\ prices = <<>>
    /\ cache = <<>>
    /\ clock = 0
    /\ ticks = 0
    /\ upd = [c \in Callers |-> NoUpdate]
    /\ config = DefaultConfig
    /\ lastCall = NoCall

\* filter_holdings on the holdings read; a tag list is passed as its set
filter_holdings_call(include_tags, exclude_tags, hide_options) ==
    /\ lastCall' = [op |-> "filter_holdings",
                    holdings |-> read_holdings(holdings, prices),
                    include_tags |-> include_tags,
                    exclude_tags |-> exclude_tags,
                    hide_options |-> hide_options,
                    result |-> filter_holdings(read_holdings(holdings, prices),
                                   include_tags, exclude_tags, hide_options)]
    /\ UNCHANGED <<holdings, prices, cache, clock, ticks, upd, config>>

\* group_by_symbol on the holdings read
group_by_symbol_call ==
    /\ lastCall' = [op |-> "group_by_symbol",
                    holdings |-> read_holdings(holdings, prices),
                    result |-> group_by_symbol(read_holdings(holdings, prices))]
    /\ UNCHANGED <<holdings, prices, cache, clock, ticks, upd, config>>

NextViews ==
    \/ \E include_tags \in SUBSET Tags, exclude_tags \in SUBSET Tags,
          hide_options \in BOOLEAN :
          filter_holdings_call(include_tags, exclude_tags, hide_options)
    \/ group_by_symbol_call

SpecViews == InitViews /\ [][NextViews]_vars

----------------------------------------------------------------------------
(* config/symbol_groups.py: normalize_symbol and get_display_symbol applied  *)
(* to any spelling                                                           *)

\* str.lower() on one character
LowerChar(c) ==
    IF \E i \in 1..Len(UpperLetters) : UpperLetters[i] = c
    THEN LowerLetters[CHOOSE i \in 1..Len(UpperLetters) : UpperLetters[i] = c]
    ELSE c

\* a symbol in every mix of upper and lower case
CaseVariants(s) ==
    {[i \in 1..Len(s) |-> IF i \in low THEN LowerChar(s[i]) ELSE s[i]] :
        low \in SUBSET (1..Len(s))}

\* every alias of every group in every letter case, and symbols of no group:
\* plain ones, one in lower case, a prefix of an alias, other share classes
SpelledSymbols ==
    UNION {CaseVariants(a) : a \in UNION {g.aliases : g \in SYMBOL_GROUPS}}
    \cup {AAPL, <<"a", "a", "p", "l">>, <<"B", "R", "K">>, BRK_A, BRK_BR, SPY500}

normalize_symbol_call(symbol) ==
    /\ lastCall' = [op |-> "normalize_symbol", symbol |-> symbol,
                    result |-> normalize_symbol(symbol)]
    /\ UNCHANGED <<holdings, prices, cache, clock, ticks, upd, config>>

get_display_symbol_call(symbol) ==
    /\ lastCall' = [op |-> "get_display_symbol", symbol |-> symbol,
                    result |-> get_display_symbol(symbol)]
    /\ UNCHANGED <<holdings, prices, cache, clock, ticks, upd, config>>

NextSymbols ==
    \/ \E symbol \in SpelledSymbols : normalize_symbol_call(symbol)
    \/ \E symbol \in SpelledSymbols : get_display_symbol_call(symbol)

SpecSymbols == Init /\ [][NextSymbols]_vars

----------------------------------------------------------------------------
(* Mutations of the two stores as two steps each, read the whole store then  *)
(* write the whole store, for callers that overlap                           *)

\* the calls the overlapping callers make
Mutations ==
    {[op |-> "update_price", symbol |-> s, last_price |-> 150125] : s \in PriceSymbols}
    \cup {[op |-> "edit_holding", symbol |-> s, tag |-> "broker1", shares |-> 7] :
             s \in LedgerSymbols}
    \cup {[op |-> "update_holdings", tag |-> "broker1",
           positions |-> <<[symbol |-> AAPL, shares |-> 10, last_price |-> None]>>]}

\* update_price line 149, edit_holding line 188, update_holdings line 88: the
\* caller reads the files
mutation_read(c, m) ==
    /\ upd[c].pc = "idle"
    /\ upd' = [upd EXCEPT ![c] = [pc |-> "mutating", call |-> m,
                                  holdings |-> holdings, prices |-> prices]]
    /\ UNCHANGED <<holdings, prices, cache, clock, ticks, config, lastCall>>

\* the price store a caller writes from the files it read
MutatedPrices(u, now) ==
    IF u.call.op = "update_price"
    THEN update_price(u.prices, u.call.symbol, u.call.last_price, None, now)
    ELSE u.prices

\* the ledger a caller writes from the files it read
MutatedHoldings(u, now) ==
    IF u.call.op = "edit_holding"
    THEN EditHoldingFile(u.holdings, u.prices, u.call.symbol, u.call.tag,
                         u.call.shares, now)
    ELSE IF u.call.op = "update_holdings"
    THEN UpdateHoldingsFile(u.holdings, u.prices, u.call.positions, u.call.tag, now)
    ELSE u.holdings

\* the rows of the ledger the call is meant to change
Targets(m, row) ==
    IF m.op = "edit_holding" THEN row.symbol = m.symbol /\ row.tag = m.tag
    ELSE m.op = "update_holdings" /\ row.tag = m.tag

\* the store the call writes
StoreOf(m) == IF m.op = "update_price" THEN "prices" ELSE "holdings"

\* the stores in which a write has so far erased what another caller wrote
\* after the writer had read
LostSoFar == IF "lostSoFar" \in DOMAIN lastCall THEN lastCall.lostSoFar ELSE {}

\* mutant: the caller reads the store again when it writes
mutation_write_rereads(c) ==
    /\ upd[c].pc = "mutating"
    /\ LET u == [upd[c] EXCEPT !.holdings = holdings, !.prices = prices]
       IN /\ IF u.call.op = "update_price"
             THEN prices' = MutatedPrices(u, clock) /\ UNCHANGED holdings
             ELSE holdings' = MutatedHoldings(u, clock) /\ UNCHANGED prices
          /\ lastCall' = [op |-> u.call.op, caller |-> c, call |-> u.call,
                          read |-> IF u.call.op = "update_price"
                                   THEN upd[c].prices ELSE upd[c].holdings,
                          lost |-> FALSE, lostSoFar |-> LostSoFar]
    /\ upd' = [upd EXCEPT ![c] = NoUpdate]
    /\ UNCHANGED <<cache, clock, ticks, config>>

\* update_price lines 155-172, edit_holding lines 189-213, update_holdings
\* lines 91-108: the change is made on the rows read and the file rewritten
mutation_write(c) ==
    /\ upd[c].pc = "mutating"
    /\ LET u == upd[c]
           lost == IF u.call.op = "update_price"
                   THEN \E i \in 1..Len(prices) :
                           /\ prices[i].symbol # u.call.symbol
                           /\ prices[i] \notin Elements(MutatedPrices(u, clock))
                   ELSE \E i \in 1..Len(holdings) :
                           /\ ~Targets(u.call, holdings[i])
                           /\ holdings[i] \notin Elements(MutatedHoldings(u, clock))
       IN /\ IF u.call.op = "update_price"
             THEN prices' = MutatedPrices(u, clock) /\ UNCHANGED holdings
             ELSE holdings' = MutatedHoldings(u, clock) /\ UNCHANGED prices
          /\ lastCall' = [op |-> u.call.op, caller |-> c, call |-> u.call,
                          read |-> IF u.call.op = "update_price"
                                   THEN u.prices ELSE u.holdings,
                          lost |-> lost,
                          lostSoFar |-> IF lost THEN LostSoFar \cup {StoreOf(u.call)}
                                        ELSE LostSoFar]
    /\ upd' = [upd EXCEPT ![c] = NoUpdate]
    /\ UNCHANGED <<cache, clock, ticks, config>>

NextRace ==
    \/ \E c \in Callers, m \in Mutations : mutation_read(c, m)
    \/ \E c \in Callers : mutation_write(c)

SpecRace == Init /\ [][NextRace]_vars

----------------------------------------------------------------------------
(* price_fetcher.py: fetch_prices_yfinance and clear_price_cache run by      *)
(* threads that share _price_cache and _price_cache_lock, one step per       *)
(* statement that touches the lock, the cache or the network                 *)

MaxCalls == 2

\* a thread between calls
IdleThread == [pc |-> "idle", holds |-> FALSE]

\* the arguments of the calls
ThreadCalls ==
    {[symbols |-> <<AAPL>>, skip_options |-> TRUE],
     [symbols |-> <<AAPL, BRK_B>>, skip_options |-> TRUE],
     [symbols |-> <<SPY500, AAPL>>, skip_options |-> TRUE],
     [symbols |-> <<SPY500, AAPL>>, skip_options |-> FALSE]}

\* what yf.download may hold for a symbol
ThreadQuotes == {150125, Omitted}

\* an entry written CACHE_EXPIRY_SECONDS ago
StaleCache == [x \in {AAPL} |-> [price |-> 150125, timestamp |-> 0]]

\* an entry one second younger
FreshCache == [x \in {AAPL} |-> [price |-> 150125, timestamp |-> 1]]

\* the cache is empty, or holds an entry that has just expired, or one that
\* is about to
InitThreads ==
    /\ holdings = <<>>
    /\ prices = <<>>
    /\ cache \in {<<>>, StaleCache, FreshCache}
    /\ clock = CACHE_EXPIRY_SECONDS
    /\ ticks = 0
    /\ upd = [c \in Callers |-> IdleThread]
    /\ config = DefaultConfig
    /\ lastCall = NoCall

\* _price_cache_lock is free
LockFree == \A c \in Callers : ~upd[c].holds

\* the statements at which a thread waits for the lock, and where it is
\* once it has it
LockedPc(pc) ==
    CASE pc = "with_check" -> "check"
      [] pc = "with_store" -> "store"
      [] pc = "with_clear" -> "clear"

\* lines 80-84: the call starts; ticks counts the calls started
yf_call(c, symbols, skip_options) ==
    /\ upd[c].pc = "idle"
    /\ ticks < MaxCalls
    /\ ticks' = ticks + 1
    /\ upd' = [upd EXCEPT ![c] =
                 [pc |-> "with_check", holds |-> FALSE, symbols |-> symbols,
                  skip_options |-> skip_options, now |-> clock,
                  prices |-> <<>>, symbols_to_fetch |-> <<>>,
                  attempt |-> 0, requests |-> 0, answered |-> FALSE,
                  data |-> <<>>, k |-> 1]]
    /\ UNCHANGED <<holdings, prices, cache, clock, config, lastCall>>

\* lines 87, 118, 127, 296: Lock.__enter__
acquire(c) ==
    /\ upd[c].pc \in {"with_check", "with_store", "with_clear"}
    /\ LockFree
    /\ upd' = [upd EXCEPT ![c].holds = TRUE, ![c].pc = LockedPc(upd[c].pc)]
    /\ UNCHANGED <<holdings, prices, cache, clock, ticks, config, lastCall>>

\* mutant: the request is made inside the with block of the check
yf_check_keepsLock(c) ==
    /\ upd[c].pc = "check"
    /\ \E toFetch \in {YfToFetch(cache, upd[c].symbols, upd[c].skip_options, upd[c].now)} :
          upd' = [upd EXCEPT
                    ![c].symbols_to_fetch = toFetch,
                    ![c].pc = IF toFetch = <<>> THEN "return" ELSE "request"]
    /\ UNCHANGED <<holdings, prices, cache, clock, ticks, config, lastCall>>

\* the symbols some other thread is fetching
InFlight(c) ==
    UNION {Elements(upd[d].symbols_to_fetch) :
              d \in {e \in Callers \ {c} :
                        upd[e].pc \in {"request", "sleep", "with_store", "store"}}}

\* mutant: a symbol that another thread is fetching is left to that thread
yf_check_singleFlight(c) ==
    /\ upd[c].pc = "check"
    /\ \E toFetch \in {LET Mine(x) == x \notin InFlight(c)
                        IN SelectSeq(YfToFetch(cache, upd[c].symbols,
                                               upd[c].skip_options, upd[c].now), Mine)} :
          upd' = [upd EXCEPT
                    ![c].symbols_to_fetch = toFetch,
                    ![c].prices =
                        [x \in {y \in Elements(YfConsidered(upd[c].symbols, upd[c].skip_options)) :
                                   CacheHit(cache, y, upd[c].now)} |-> cache[x].price],
                    ![c].holds = FALSE,
                    ![c].pc = IF toFetch = <<>> THEN "return" ELSE "request"]
    /\ UNCHANGED <<holdings, prices, cache, clock, ticks, config, lastCall>>

\* lines 88-95: the check of every symbol, then the end of the with block
yf_check(c) ==
    /\ upd[c].pc = "check"
    /\ \E toFetch \in {YfToFetch(cache, upd[c].symbols, upd[c].skip_options, upd[c].now)} :
          upd' = [upd EXCEPT
                    ![c].symbols_to_fetch = toFetch,
                    ![c].prices =
                        [x \in Elements(YfConsidered(upd[c].symbols, upd[c].skip_options))
                                  \ Elements(toFetch) |-> cache[x].price],
                    ![c].holds = FALSE,
                    ![c].pc = IF toFetch = <<>> THEN "return" ELSE "request"]
    /\ UNCHANGED <<holdings, prices, cache, clock, ticks, config, lastCall>>

\* the answers yf.download may give for the symbols asked for
Downloads(toFetch) ==
    [{get_provider_symbol(toFetch[i], "yfinance") : i \in 1..Len(toFetch)} -> ThreadQuotes]

\* lines 99-101: yf.download answers
yf_download(c, data) ==
    /\ upd[c].pc = "request"
    /\ upd' = [upd EXCEPT ![c].requests = @ + 1, ![c].answered = TRUE,
                          ![c].data = data, ![c].k = 1, ![c].pc = "with_store"]
    /\ UNCHANGED <<holdings, prices, cache, clock, ticks, config, lastCall>>

\* mutant: the retry loop stops one failure later
yf_download_raises_oneMore(c) ==
    /\ upd[c].pc = "request"
    /\ upd' = [upd EXCEPT
                 ![c].requests = @ + 1,
                 ![c].attempt = @ + 1,
                 ![c].k = 1,
                 ![c].pc = IF upd[c].attempt + 1 > max_retries
                           THEN "with_store" ELSE "sleep"]
    /\ UNCHANGED <<holdings, prices, cache, clock, ticks, config, lastCall>>

\* lines 101, 121-130: yf.download raises
yf_download_raises(c) ==
    /\ upd[c].pc = "request"
    /\ upd' = [upd EXCEPT
                 ![c].requests = @ + 1,
                 ![c].attempt = @ + 1,
                 ![c].k = 1,
                 ![c].pc = IF upd[c].attempt + 1 >= max_retries
                           THEN "with_store" ELSE "sleep"]
    /\ UNCHANGED <<holdings, prices, cache, clock, ticks, config, lastCall>>

\* line 130: time.sleep(retry_delay) returns
yf_sleep(c) ==
    /\ upd[c].pc = "sleep"
    /\ upd' = [upd EXCEPT ![c].pc = "request"]
    /\ UNCHANGED <<holdings, prices, cache, clock, ticks, config, lastCall>>

\* lines 104-119 and 125-128: the price of the k-th symbol to fetch, its
\* cache entry written inside the with block, the end of the block
yf_store(c) ==
    /\ upd[c].pc = "store"
    /\ \E x \in {upd[c].symbols_to_fetch[upd[c].k]} :
       \E price \in {IF upd[c].answered
                     THEN YfPrice(upd[c].data[get_provider_symbol(x, "yfinance")])
                     ELSE 0} :
          /\ cache' = [y \in DOMAIN cache \cup {x} |->
                          IF y = x THEN [price |-> price, timestamp |-> upd[c].now]
                          ELSE cache[y]]
          /\ upd' = [upd EXCEPT
                       ![c].prices = [y \in DOMAIN upd[c].prices \cup {x} |->
                                         IF y = x THEN price ELSE upd[c].prices[y]],
                       ![c].holds = FALSE,
                       ![c].k = @ + 1,
                       ![c].pc = IF upd[c].k = Len(upd[c].symbols_to_fetch)
                                 THEN "return" ELSE "with_store"]
    /\ UNCHANGED <<holdings, prices, clock, ticks, config, lastCall>>

\* line 131: return prices
yf_return(c) ==
    /\ upd[c].pc = "return"
    /\ lastCall' = [op |-> "fetch_prices_yfinance", caller |-> c]
    /\ upd' = [upd EXCEPT ![c] = IdleThread]
    /\ UNCHANGED <<holdings, prices, cache, clock, ticks, config>>

\* line 295: clear_price_cache is called
clear_call(c) ==
    /\ upd[c].pc = "idle"
    /\ ticks < MaxCalls
    /\ ticks' = ticks + 1
    /\ upd' = [upd EXCEPT ![c] = [pc |-> "with_clear", holds |-> FALSE]]
    /\ UNCHANGED <<holdings, prices, cache, clock, config, lastCall>>

\* lines 296-297: _price_cache.clear() inside the with block, then return
clear_step(c) ==
    /\ upd[c].pc = "clear"
    /\ cache' = <<>>
    /\ upd' = [upd EXCEPT ![c] = IdleThread]
    /\ lastCall' = [op |-> "clear_price_cache", caller |-> c]
    /\ UNCHANGED <<holdings, prices, clock, ticks, config>>

\* the steps of one thread
ThreadStep(c) ==
    \/ \E call \in ThreadCalls : yf_call(c, call.symbols, call.skip_options)
    \/ acquire(c)
    \/ yf_check(c)
    \/ /\ upd[c].pc = "request"
       /\ \E data \in Downloads(upd[c].symbols_to_fetch) : yf_download(c, data)
    \/ yf_download_raises(c)
    \/ yf_sleep(c)
    \/ yf_store(c)
    \/ yf_return(c)
    \/ clear_call(c)
    \/ clear_step(c)

NextThreads == \E c \in Callers : ThreadStep(c)

SpecThreads == InitThreads /\ [][NextThreads]_vars

----------------------------------------------------------------------------
(* price_fetcher.py: fetch_prices with any provider, one step per request    *)

\* the arguments of the calls of fetch_prices: one symbol, two symbols and
\* two options, an index
ProviderCalls ==
    {[symbols |-> <<AAPL>>, skip_options |-> TRUE],
     [symbols |-> <<AAPL, BRK_B, SPY500, AAPL_PUT>>, skip_options |-> FALSE],
     [symbols |-> <<VIX>>, skip_options |-> TRUE]}

\* any environment; the cache is empty or, with yfinance, the only provider
\* that writes it, holds an entry that is about to expire
InitProviders ==
    /\ holdings = <<>>
    /\ prices = <<>>
    /\ config \in Configs
    /\ cache \in IF config.PRICE_PROVIDER = "yfinance" THEN {<<>>, FreshCache} ELSE {<<>>}
    /\ clock = CACHE_EXPIRY_SECONDS
    /\ ticks = 0
    /\ upd = [c \in Callers |-> IdleThread]
    /\ lastCall = NoCall

\* lines 144-147, 179-182, 189: the provider function starts
provider_call(c, symbols, keyed, pc) ==
    /\ upd[c].pc = "idle"
    /\ ticks < MaxCalls
    /\ ticks' = ticks + 1
    /\ upd' = [upd EXCEPT ![c] =
                 [pc |-> IF ~keyed THEN "raise" ELSE pc,
                  holds |-> FALSE, symbols |-> symbols,
                  skip_options |-> TRUE, now |-> clock,
                  prices |-> <<>>, symbols_to_fetch |-> symbols,
                  attempt |-> 0, requests |-> 0, answered |-> FALSE,
                  data |-> <<>>, k |-> 1]]
    /\ UNCHANGED <<holdings, prices, cache, clock, config, lastCall>>

\* lines 41-50: fetch_prices filters and calls the configured provider's
\* function, without skip_options
fetch_prices_begin(c, symbols, skip_options) ==
    \E passed \in {PassedOn(symbols, skip_options)} :
       IF config.PRICE_PROVIDER = "alpha_vantage"
       THEN provider_call(c, passed, config.ALPHA_VANTAGE_API_KEY,
                          IF passed = <<>> THEN "return" ELSE "av_request")
       ELSE IF config.PRICE_PROVIDER = "iex_cloud"
       THEN provider_call(c, passed, config.IEX_CLOUD_API_KEY, "iex_request")
       ELSE yf_call(c, passed, TRUE)

\* lines 144-145, 179-180: raise ValueError
provider_raise(c) ==
    /\ upd[c].pc = "raise"
    /\ lastCall' = [op |-> "fetch_prices", caller |-> c, raised |-> TRUE]
    /\ upd' = [upd EXCEPT ![c] = IdleThread]
    /\ UNCHANGED <<holdings, prices, cache, clock, ticks, config>>

\* the price alpha_vantage and iex_cloud take from an answer
PlainPrice(q) == IF q \in {Omitted, Error} THEN 0 ELSE q

\* lines 150-164: the request for the k-th symbol and its price
av_request(c, q) ==
    /\ upd[c].pc = "av_request"
    /\ \E x \in {upd[c].symbols[upd[c].k]} :
          upd' = [upd EXCEPT
                    ![c].requests = @ + 1,
                    ![c].answered = @ \/ q # Error,
                    ![c].prices = [y \in DOMAIN upd[c].prices \cup {x} |->
                                      IF y = x THEN PlainPrice(q) ELSE upd[c].prices[y]],
                    ![c].k = @ + 1,
                    ![c].pc = IF upd[c].k = Len(upd[c].symbols)
                              THEN "return" ELSE "av_request"]
    /\ UNCHANGED <<holdings, prices, cache, clock, ticks, config, lastCall>>

\* the answers the batch request may get: quotes, or it raises
IexAnswers(symbols) ==
    [{get_provider_symbol(symbols[i], "iex_cloud") : i \in 1..Len(symbols)} -> ThreadQuotes]
    \cup {[raises |-> TRUE]}

\* lines 192-205: the one request and the price of every symbol
iex_request(c, data) ==
    /\ upd[c].pc = "iex_request"
    /\ upd' = [upd EXCEPT
                 ![c].requests = @ + 1,
                 ![c].answered = data # [raises |-> TRUE],
                 ![c].prices =
                     [x \in Elements(upd[c].symbols) |->
                         IF data = [raises |-> TRUE] THEN 0
                         ELSE PlainPrice(data[get_provider_symbol(x, "iex_cloud")])],
                 ![c].pc = "return"]
    /\ UNCHANGED <<holdings, prices, cache, clock, ticks, config, lastCall>>

\* the steps of a call in progress
Progress(c) ==
    \/ acquire(c)
    \/ yf_check(c)
    \/ /\ upd[c].pc = "request"
       /\ \E data \in Downloads(upd[c].symbols_to_fetch) : yf_download(c, data)
    \/ yf_download_raises(c)
    \/ yf_sleep(c)
    \/ yf_store(c)
    \/ yf_return(c)
    \/ provider_raise(c)
    \/ /\ upd[c].pc = "av_request"
       /\ \E q \in ThreadQuotes \cup {Error} : av_request(c, q)
    \/ /\ upd[c].pc = "iex_request"
       /\ \E data \in IexAnswers(upd[c].symbols) : iex_request(c, data)
    \/ clear_step(c)

NextProviders ==
    \E c \in Callers :
       \/ \E call \in ProviderCalls : fetch_prices_begin(c, call.symbols, call.skip_options)
       \/ clear_call(c)
       \/ Progress(c)

\* every thread and coroutine is scheduled again, a request is answered or
\* raises, the delay ends
SpecProviders ==
    /\ InitProviders
    /\ [][NextProviders]_vars
    /\ \A c \in Callers : WF_vars(Progress(c))

----------------------------------------------------------------------------
(* Calls of fetch_prices, with the record of the fetches that exhausted     *)
(* their retries: upd.exhausted holds <<symbol, time>> for each of them,    *)
(* upd.kept those made since the cache was last cleared                     *)

InitBlackout ==
    /\ holdings = <<>>
    /\ prices = <<>>
    /\ cache = <<>>
    /\ clock = 0
    /\ ticks = 0
    /\ upd = [exhausted |-> {}, kept |-> {}]
    /\ config \in Configs
    /\ lastCall = NoCall

\* the argument lists of the calls
BlackoutLists == {<<AAPL>>, <<BRK_B>>, <<AAPL, BRK_B>>}

\* the provider's behaviour during one call: it answers the first attempt
\* or the second, or no attempt
BlackoutOutcomes(asked) ==
    {o \in Outcomes(asked) :
        /\ o.fails \in {0, 1, max_retries}
        /\ \A p \in DOMAIN o.data : o.data[p] \in {150125, Error}}

\* fetch_prices, as fetch_prices_call
fetch_prices_recorded(symbols, skip_options) ==
    /\ Idle
    /\ \E outcome \in BlackoutOutcomes(AskedFor(config, cache, symbols, skip_options, clock)) :
      \E r \in {fetch_prices(config, cache, symbols, skip_options, clock, outcome)} :
      \E failed \in {IF r.exhausted
                     THEN {<<r.fetched[i], clock>> : i \in 1..Len(r.fetched)} ELSE {}} :
           /\ cache' = r.cache
           /\ lastCall' = [op |-> "fetch_prices", symbols |-> symbols,
                           skip_options |-> skip_options, now |-> clock,
                           raised |-> r.raised, prices |-> r.prices,
                           fetched |-> r.fetched, requests |-> r.requests,
                           exhausted |-> r.exhausted, unserved |-> r.unserved]
           /\ upd' = [exhausted |-> upd.exhausted \cup failed,
                      kept |-> upd.kept \cup failed]
           /\ UNCHANGED <<holdings, prices, clock, ticks, config>>

\* clear_price_cache
clear_price_cache_recorded ==
    /\ Idle
    /\ cache' = <<>>
    /\ lastCall' = [op |-> "clear_price_cache"]
    /\ upd' = [upd EXCEPT !.kept = {}]
    /\ UNCHANGED <<holdings, prices, clock, ticks, config>>

NextBlackout ==
    \/ \E d \in ElapseSteps : Elapse(d)
    \/ \E symbols \in BlackoutLists, skip_options \in BOOLEAN :
          fetch_prices_recorded(symbols, skip_options)
    \/ clear_price_cache_recorded
    \/ Return

SpecBlackout == InitBlackout /\ [][NextBlackout]_vars

----------------------------------------------------------------------------
(* get_portfolio_values called again and again on a ledger that uploads     *)
(* have left, while time passes                                             *)

\* ledgers left by uploads at time 0: one holding; an alias spelling and
\* the canonical one under two tags, with a plain symbol; an option
RefreshLedgers ==
    {write_holdings(<<NewRow(AAPL, "broker1", 10, 0)>>),
     write_holdings(<<NewRow(AAPL, "broker1", 10, 0), NewRow(BRKB, "broker1", 5, 0),
                      NewRow(BRK_B, "broker2", 10, 1)>>),
     write_holdings(<<NewRow(BRK_B, "broker2", 10, 1), NewRow(BRKB, "broker1", 5, 0)>>),
     write_holdings(<<NewRow(SPY500, "broker1", 5, 0), NewRow(AAPL, "broker1", 10, 0)>>)}

InitRefresh ==
    /\ holdings \in RefreshLedgers
    /\ prices = <<>>
    /\ cache = <<>>
    /\ clock = 0
    /\ ticks = 0
    /\ upd = [c \in Callers |-> NoUpdate]
    /\ config \in Configs
    /\ lastCall = NoCall

NextRefresh ==
    \/ \E d \in ElapseSteps : Elapse(d)
    \/ \E force_refresh \in BOOLEAN, skip_options \in BOOLEAN :
          get_portfolio_values_call(force_refresh, skip_options)
    \/ Return

SpecRefresh == InitRefresh /\ [][NextRefresh]_vars

----------------------------------------------------------------------------
(* GET /positions called again and again on a stored ledger while time      *)
(* passes                                                                    *)

NextPositions ==
    \/ \E d \in ElapseSteps : Elapse(d)
    \/ \E q \in PositionQueries : get_positions(q)
    \/ Return

SpecPositions == InitRefresh /\ [][NextPositions]_vars

----------------------------------------------------------------------------
(* Holdings ledger: properties *)

NoDupRows(hs) ==
    \A i, j \in 1..Len(hs) :
        (hs[i].symbol = hs[j].symbol /\ hs[i].tag = hs[j].tag) => i = j

DistinctSymbols(ps) ==
    \A i, j \in 1..Len(ps) : ps[i].symbol = ps[j].symbol => i = j

WithoutTime(hs) ==
    [i \in 1..Len(hs) |->
        [symbol |-> hs[i].symbol, tag |-> hs[i].tag, shares |-> hs[i].shares]]

\* C1 as stated: in every reachable state of the ledger, whatever the
\* arguments of the update_holdings and edit_holding calls that led to it,
\* there is at most one row per (symbol, tag) pair.
LedgerUniqueForAnyArguments == NoDupRows(holdings)

\* C1 amended: an edit_holding call, and an update_holdings call whose
\* positions have pairwise distinct symbols, made on a ledger with at most
\* one row per (symbol, tag) pair leaves a ledger with at most one row per
\* pair; the empty ledger has none, so the invariant holds along every
\* sequence of such calls.
LedgerUniquePreserved ==
    [][(/\ NoDupRows(holdings)
        /\ lastCall'.op = "update_holdings" => DistinctSymbols(lastCall'.positions))
       => NoDupRows(holdings')]_vars

LedgerUniqueWitness ==
    /\ lastCall.op = "edit_holding"
    /\ Len(holdings) = MaxRows
    /\ NoDupRows(holdings)
    /\ \E i \in 1..(Len(holdings) - 1) :
          /\ holdings[i].symbol = lastCall.symbol
          /\ holdings[i].tag = lastCall.tag
          /\ holdings[i].last_updated = lastCall.now
          /\ holdings[i + 1].last_updated < lastCall.now

\* C2: a second update_holdings call with the same tag and the same
\* positions (pairwise distinct symbols), made right after the first, leaves
\* the rows of the first call (last_updated aside), with exactly one row of
\* that tag per position symbol.
UpdateHoldingsIdempotent ==
    [][(/\ lastCall'.op = "update_holdings"
        /\ lastCall'.repeat
        /\ DistinctSymbols(lastCall'.positions))
       => /\ WithoutTime(holdings') = WithoutTime(holdings)
          /\ \A k \in 1..Len(lastCall'.positions) :
                Cardinality({i \in 1..Len(holdings') :
                    /\ holdings'[i].tag = lastCall'.tag
                    /\ holdings'[i].symbol = lastCall'.positions[k].symbol}) = 1]_vars

UpdateHoldingsIdempotentWitness ==
    /\ lastCall.op = "update_holdings"
    /\ lastCall.repeat
    /\ Len(lastCall.positions) = 2
    /\ DistinctSymbols(lastCall.positions)
    /\ lastCall.now > 0
    /\ \E i \in 1..Len(holdings) : holdings[i].tag # lastCall.tag

\* C3: update_holdings(positions, t) leaves as rows of tag t exactly one row
\* per position, in input order, with the position's symbol and shares, and
\* leaves the rows of every other tag as they were, fields and order.
UpdateHoldingsFullResync ==
    [][lastCall'.op = "update_holdings" =>
        LET t == lastCall'.tag
            ps == lastCall'.positions
            OfTag(h) == h.tag = t
            NotOfTag(h) == h.tag # t
            new == SelectSeq(holdings', OfTag)
        IN /\ Len(new) = Len(ps)
           /\ \A k \in 1..Len(ps) :
                 new[k].symbol = ps[k].symbol /\ new[k].shares = ps[k].shares
           /\ SelectSeq(holdings', NotOfTag) = SelectSeq(holdings, NotOfTag)]_vars

UpdateHoldingsFullResyncWitness ==
    /\ lastCall.op = "update_holdings"
    /\ Len(lastCall.positions) = 2
    /\ lastCall.positions[1].symbol # lastCall.positions[2].symbol
    /\ Len(holdings) = 3
    /\ holdings[1].tag # lastCall.tag
    /\ holdings[1].last_updated < lastCall.now
    /\ holdings[2].symbol = lastCall.positions[1].symbol
    /\ holdings[3].symbol = lastCall.positions[2].symbol

\* C4: edit_holding(symbol, tag, shares) gives the first row matching
\* (symbol, tag) the new shares and the time of the call and keeps the row
\* count, or appends one row when no row matches; every other row, later
\* duplicates of the pair included, is unchanged.
EditHoldingOneRow ==
    [][lastCall'.op = "edit_holding" =>
        LET c == lastCall'
            match == {i \in 1..Len(holdings) :
                        holdings[i].symbol = c.symbol /\ holdings[i].tag = c.tag}
            row == [symbol |-> c.symbol, tag |-> c.tag, shares |-> c.shares,
                    last_updated |-> c.now]
        IN IF match # {}
           THEN LET k == CHOOSE i \in match : \A j \in match : i <= j
                IN /\ Len(holdings') = Len(holdings)
                   /\ holdings'[k] = row
                   /\ \A i \in 1..Len(holdings) : i # k => holdings'[i] = holdings[i]
           ELSE /\ Len(holdings') = Len(holdings) + 1
                /\ holdings'[Len(holdings')] = row
                /\ \A i \in 1..Len(holdings) : holdings'[i] = holdings[i]]_vars

EditHoldingOneRowWitness ==
    /\ lastCall.op = "edit_holding"
    /\ \E i, j \in 1..Len(holdings) :
          /\ i < j
          /\ holdings[i].symbol = lastCall.symbol /\ holdings[i].tag = lastCall.tag
          /\ holdings[j].symbol = lastCall.symbol /\ holdings[j].tag = lastCall.tag
          /\ holdings[i].shares = lastCall.shares
          /\ holdings[i].last_updated = lastCall.now
          /\ holdings[j].shares # lastCall.shares
          /\ holdings[j].last_updated < lastCall.now

----------------------------------------------------------------------------
(* Price store: properties *)

\* C5: whatever the interleaving of the read and write steps of overlapping
\* update_price calls, the price store holds at most one record per symbol.
PriceStoreUniqueBySymbol ==
    \A i, j \in 1..Len(prices) : prices[i].symbol = prices[j].symbol => i = j

\* a caller wrote the store from a list read before another caller's write,
\* and the store holds a record the overlapping calls both targeted
PriceStoreUniqueWitness ==
    /\ lastCall.op = "update_price"
    /\ lastCall.stale
    /\ Len(prices) = 2
    /\ \E c \in Callers :
          /\ upd[c].pc = "read"
          /\ upd[c].symbol = lastCall.symbol
          /\ upd[c].local # read_prices(prices)

----------------------------------------------------------------------------
(* Price cache: properties *)

\* the symbols of a fetch_prices call that are not dropped before the cache
\* is looked up
LookedUp(call) ==
    {x \in Elements(call.symbols) :
        ~is_option(x) /\ (call.skip_options => ~HasSpecialChar(x))}

\* C6: a fetch of a symbol cached with timestamp T, made at time t, returns
\* the cached price and sends no provider request for the symbol when
\* t - T < 600, and sends a provider request for it when t - T > 600.
CacheExpiry ==
    [][lastCall'.op = "fetch_prices" =>
        \A x \in LookedUp(lastCall') \cap DOMAIN cache :
            LET age == lastCall'.now - cache[x].timestamp
            IN /\ age < 600 =>
                    /\ x \in DOMAIN lastCall'.prices
                    /\ lastCall'.prices[x] = cache[x].price
                    /\ x \notin Elements(lastCall'.fetched)
                    /\ cache'[x] = cache[x]
               /\ age > 600 =>
                    /\ x \in Elements(lastCall'.fetched)
                    /\ lastCall'.requests >= 1]_vars

\* a price cached at 0 is returned at 599 by a call that sends no request
CacheExpiryWitness ==
    /\ lastCall.op = "fetch_prices"
    /\ lastCall.now = 599
    /\ lastCall.requests = 0
    /\ \E x \in DOMAIN lastCall.prices :
          /\ x \in DOMAIN cache
          /\ cache[x].timestamp = 0
          /\ cache[x].price = 150125
          /\ lastCall.prices[x] = 150125

\* C7: when all 3 attempts of a fetch call fail, the call returns 0.0 for
\* every symbol it looked up and did not serve from the cache, and the cache
\* holds {0.0, time of the call} for each of them.
RetriesExhaustedDegrade ==
    [][(lastCall'.op = "fetch_prices" /\ lastCall'.exhausted) =>
        /\ lastCall'.requests = 3
        /\ \A x \in LookedUp(lastCall') :
              \/ /\ x \in DOMAIN cache
                 /\ lastCall'.now - cache[x].timestamp < 600
                 /\ lastCall'.prices[x] = cache[x].price
              \/ /\ x \in DOMAIN lastCall'.prices
                 /\ lastCall'.prices[x] = 0
                 /\ x \in DOMAIN cache'
                 /\ cache'[x] = [price |-> 0, timestamp |-> lastCall'.now]]_vars

\* after three failed attempts one symbol is served from the cache and the
\* other is returned and cached as 0.0
RetriesExhaustedWitness ==
    /\ lastCall.op = "fetch_prices"
    /\ lastCall.exhausted
    /\ lastCall.now = 599
    /\ \E x, y \in DOMAIN lastCall.prices :
          /\ lastCall.prices[x] = 150125
          /\ cache[x].timestamp = 0
          /\ lastCall.prices[y] = 0
          /\ cache[y] = [price |-> 0, timestamp |-> 599]

----------------------------------------------------------------------------
(* Enrichment and the positions endpoint: properties *)

\* the configured provider has its API key; yfinance needs none
CredentialPresent(cfg) ==
    /\ cfg.PRICE_PROVIDER = "alpha_vantage" => cfg.ALPHA_VANTAGE_API_KEY
    /\ cfg.PRICE_PROVIDER = "iex_cloud" => cfg.IEX_CLOUD_API_KEY

EnrichmentCall(call) == call.op \in {"get_positions", "get_portfolio_values"}

\* C8: with the credential of the configured provider present, neither
\* fetch_prices nor get_portfolio_values raises, whatever the provider does:
\* a symbol whose quote the provider omits or fails on, or whose request fails
\* on every attempt, is mapped to 0.0 by fetch_prices, and the portfolio call
\* returns its row with price 0.0.
ProviderFailuresDegrade ==
    (EnrichmentCall(lastCall) /\ CredentialPresent(config)) =>
        /\ ~lastCall.fetch.raised
        /\ ~lastCall.raised
        /\ \A x \in lastCall.fetch.unserved :
              /\ x \in DOMAIN lastCall.fetch.prices
              /\ lastCall.fetch.prices[x] = 0
              /\ \E i \in 1..Len(lastCall.positions) :
                    /\ lastCall.positions[i].symbol = get_display_symbol(x)
                    /\ lastCall.positions[i].price = 0

\* a provider that is not yfinance answered for one symbol and omitted or
\* failed on the other: the call returned both rows, one priced, one at 0.0
ProviderFailuresWitness ==
    /\ EnrichmentCall(lastCall)
    /\ config.PRICE_PROVIDER # "yfinance"
    /\ ~lastCall.raised
    /\ lastCall.fetch.unserved # {}
    /\ \E i, j \in 1..Len(lastCall.positions) :
          /\ lastCall.positions[i].price = 0
          /\ lastCall.positions[j].price = 150125

\* C9: every row get_portfolio_values returns, with force_refresh or
\* without, has value = shares * price, the product as the floats give it
\* (NaN for a NaN price), and a row whose price is 0.0 has value 0.
RowValueIsSharesTimesPrice ==
    (EnrichmentCall(lastCall) /\ ~lastCall.raised) =>
        \A i \in 1..Len(lastCall.positions) :
            LET row == lastCall.positions[i]
            IN /\ row.value = FMul(row.shares, row.price)
               /\ row.price = 0 => row.value = 0

\* a forced refresh replaced the stored price of a group of two spellings by
\* a fetched one, and returned another row at the 0.0 sentinel
RowValueWitness ==
    /\ EnrichmentCall(lastCall)
    /\ lastCall.force_refresh
    /\ \E i, j \in 1..Len(lastCall.positions) :
          /\ lastCall.positions[i].shares = 15
          /\ lastCall.positions[i].price = 150125
          /\ lastCall.positions[i].value = 2251875
          /\ lastCall.positions[j].price = 0
          /\ lastCall.positions[j].value = 0

\* the ledger is what one upload leaves of an empty ledger: rows of one tag,
\* written by one call, with pairwise distinct canonical symbols
OneUpload(hs) ==
    /\ hs # <<>>
    /\ \A i, j \in 1..Len(hs) :
          /\ hs[i].tag = hs[j].tag
          /\ hs[i].last_updated = hs[j].last_updated
          /\ normalize_symbol(hs[i].symbol) = normalize_symbol(hs[j].symbol) => i = j

NoFilters ==
    [exclude |-> {}, include |-> {}, group_by |-> FALSE, hide_options |-> FALSE]

RECURSIVE SumOfProducts(_, _)
\* the sum of shares * price over the rows from row k on, in row order
SumOfProducts(rows, k) ==
    IF k > Len(rows) THEN 0
    ELSE FAdd(FMul(rows[k].shares, rows[k].price), SumOfProducts(rows, k + 1))

\* total is x rounded to 2 decimals: a whole number of hundredths at most
\* half a hundredth from x
RoundedTo2(total, x) ==
    IF x = NaN \/ x = PosInf THEN total = x
    ELSE /\ total % 10 = 0
         /\ total - x <= 5
         /\ x - total <= 5

\* C10: once an upload has stored n positions with pairwise distinct
\* canonical symbols into an empty ledger, get_positions without filters
\* (the provider's credential present) returns n rows, position_count = n
\* and total_value = the sum over the rows of shares * price, rounded to 2
\* decimals.
UploadThenPositions ==
    (/\ lastCall.op = "get_positions"
     /\ lastCall.args = NoFilters
     /\ OneUpload(holdings)
     /\ CredentialPresent(config)) =>
        /\ ~lastCall.raised
        /\ Len(lastCall.positions) = Len(holdings)
        /\ lastCall.position_count = Len(holdings)
        /\ RoundedTo2(lastCall.total_value, SumOfProducts(lastCall.positions, 1))

\* two positions uploaded, both priced by the provider: two rows, and a
\* total that the rounding changed
UploadThenPositionsWitness ==
    /\ lastCall.op = "get_positions"
    /\ lastCall.args = NoFilters
    /\ OneUpload(holdings)
    /\ Len(holdings) = 2
    /\ lastCall.position_count = 2
    /\ lastCall.positions[1].price = 150125
    /\ lastCall.positions[2].price = 150125
    /\ lastCall.total_value = 2251880

----------------------------------------------------------------------------
(* Filtering and grouping: properties *)

\* C11: filter_holdings returns the rows r, in input order, with
\* (include_tags empty or r.tag in include_tags) and r.tag not in
\* exclude_tags and (hide_options false or r.symbol not ending in a digit);
\* so a tag both included and excluded leaves no row, an empty include list
\* filters nothing and a symbol ending in CALL or PUT is not hidden.
FilterHoldingsSubsequence ==
    lastCall.op = "filter_holdings" =>
        LET c == lastCall
            Kept(r) ==
                /\ c.include_tags = {} \/ r.tag \in c.include_tags
                /\ r.tag \notin c.exclude_tags
                /\ ~c.hide_options \/ r.symbol[Len(r.symbol)] \notin Digits
        IN /\ c.result = SelectSeq(c.holdings, Kept)
           /\ \A i \in 1..Len(c.result) :
                 c.result[i].tag \notin c.include_tags \cap c.exclude_tags
           /\ (c.include_tags # {} /\ c.include_tags \subseteq c.exclude_tags)
                 => c.result = <<>>
           /\ (c.include_tags = {} /\ c.exclude_tags = {} /\ ~c.hide_options)
                 => c.result = c.holdings

\* options hidden and one tag included: of three rows the one of the other
\* tag and the one ending in digits are dropped, the one ending in "put" stays
FilterHoldingsWitness ==
    /\ lastCall.op = "filter_holdings"
    /\ lastCall.hide_options
    /\ lastCall.include_tags = {"broker1"}
    /\ lastCall.exclude_tags = {}
    /\ Len(lastCall.holdings) = 3
    /\ lastCall.holdings[1].symbol = SPY500 /\ lastCall.holdings[1].tag = "broker1"
    /\ lastCall.holdings[2].tag = "broker2"
    /\ lastCall.holdings[3].symbol = AAPL_PUT /\ lastCall.holdings[3].tag = "broker1"
    /\ lastCall.result = <<lastCall.holdings[3]>>

\* the indices of the rows of a symbol
RowsOf(hs, symbol) == {i \in 1..Len(hs) : hs[i].symbol = symbol}

RECURSIVE SumShares(_, _)
\* the sum of the shares of the rows with indices in a set
SumShares(hs, idx) ==
    IF idx = {} THEN 0
    ELSE LET i == CHOOSE j \in idx : TRUE
         IN hs[i].shares + SumShares(hs, idx \ {i})

\* the first row of a symbol that carries a tag
FirstWithTag(hs, symbol, tag) ==
    CHOOSE i \in RowsOf(hs, symbol) :
        /\ hs[i].tag = tag
        /\ \A j \in RowsOf(hs, symbol) : hs[j].tag = tag => i <= j

\* C12: group_by_symbol returns one row per distinct raw symbol of its
\* input; the row's shares is the sum of the shares of the input rows with
\* that symbol, and its tags are the distinct tags of those rows, each once,
\* in order of first appearance.
GroupBySymbolSums ==
    lastCall.op = "group_by_symbol" =>
        LET hs == lastCall.holdings
            out == lastCall.result
        IN /\ \A i \in 1..Len(hs) :
                 Cardinality({k \in 1..Len(out) : out[k].symbol = hs[i].symbol}) = 1
           /\ \A k \in 1..Len(out) :
                 LET rows == RowsOf(hs, out[k].symbol)
                     tags == out[k].tags
                 IN /\ rows # {}
                    /\ out[k].shares = SumShares(hs, rows)
                    /\ {tags[a] : a \in 1..Len(tags)} = {hs[i].tag : i \in rows}
                    /\ \A a, b \in 1..Len(tags) :
                          a < b => FirstWithTag(hs, out[k].symbol, tags[a])
                                     < FirstWithTag(hs, out[k].symbol, tags[b])

\* three rows of two tags under one symbol, and a second spelling of the
\* same group kept as a row of its own
GroupBySymbolWitness ==
    /\ lastCall.op = "group_by_symbol"
    /\ Len(lastCall.holdings) = 3
    /\ lastCall.holdings[1].symbol = BRKB /\ lastCall.holdings[1].tag = "broker2"
    /\ lastCall.holdings[2].symbol = BRK_B
    /\ lastCall.holdings[3].symbol = BRKB /\ lastCall.holdings[3].tag = "broker1"
    /\ Len(lastCall.result) = 2
    /\ lastCall.result[1].symbol = BRKB
    /\ lastCall.result[1].shares = 15
    /\ lastCall.result[1].tags = <<"broker2", "broker1">>

----------------------------------------------------------------------------
(* Symbol groups: properties *)

\* two spellings that differ in letter case only
SameIgnoringCase(x, y) ==
    /\ Len(x) = Len(y)
    /\ \A i \in 1..Len(x) :
          \/ x[i] = y[i]
          \/ \E k \in 1..Len(LowerLetters) :
                {x[i], y[i]} = {LowerLetters[k], UpperLetters[k]}

\* the groups a spelling is an alias of
GroupsOf(symbol) ==
    {g \in SYMBOL_GROUPS : \E a \in g.aliases : SameIgnoringCase(symbol, a)}

\* C13: normalize_symbol maps an alias of a group, in any letter case, to
\* the group's canonical symbol and returns any other symbol unchanged;
\* get_display_symbol gives the display symbol of the group, so
\* normalize("BRK-B") = normalize("BRK.B") = normalize("BRKB") = "BRK.B" and
\* display("BRKB") = "BRK.B".
NormalizeSymbolAliases ==
    /\ lastCall.op = "normalize_symbol" =>
          IF GroupsOf(lastCall.symbol) # {}
          THEN \A g \in GroupsOf(lastCall.symbol) : lastCall.result = g.canonical
          ELSE lastCall.result = lastCall.symbol
    /\ lastCall.op = "get_display_symbol" =>
          IF GroupsOf(lastCall.symbol) # {}
          THEN \A g \in GroupsOf(lastCall.symbol) : lastCall.result = g.display
          ELSE lastCall.result = lastCall.symbol
    /\ (lastCall.op = "normalize_symbol"
        /\ lastCall.symbol \in {BRK_DASH_B, BRK_B, BRKB}) => lastCall.result = BRK_B
    /\ (lastCall.op = "get_display_symbol" /\ lastCall.symbol = BRKB)
          => lastCall.result = BRK_B

\* "bRk b", an alias in mixed case, is mapped to "BRK.B"
NormalizeSymbolWitness ==
    /\ lastCall.op = "normalize_symbol"
    /\ lastCall.symbol = <<"b", "R", "k", " ", "b">>
    /\ lastCall.result = BRK_B

----------------------------------------------------------------------------
(* Upload: properties *)

\* C14: an upload whose extraction yields no position, the service having
\* answered with an empty list or with output that does not parse, ends in an
\* error and leaves the ledger as it was: no row added, the rows of the
\* upload's tag still there.
EmptyExtractionRejected ==
    [][(lastCall'.op = "process_image" /\ lastCall'.positions = <<>>) =>
          /\ lastCall'.raised
          /\ holdings' = holdings]_vars

\* an upload without positions was rejected on a ledger that holds rows of
\* the upload's tag and of another tag
EmptyExtractionWitness ==
    /\ lastCall.op = "process_image"
    /\ lastCall.positions = <<>>
    /\ lastCall.raised
    /\ \E i, j \in 1..Len(holdings) :
          /\ holdings[i].tag = lastCall.tag
          /\ holdings[j].tag # lastCall.tag

----------------------------------------------------------------------------
(* Missing credential: properties *)

\* the call of get_portfolio_values reached fetch_prices
FetchCalled(call) == call.force_refresh \/ call.asked # <<>>

\* C15: with alpha_vantage or iex_cloud selected and no API key configured,
\* fetch_prices raises before any provider request, so none is sent and none
\* retried, and the get_portfolio_values call that made it raises and writes
\* nothing to the price store.
MissingCredentialFailsFast ==
    [][(/\ EnrichmentCall(lastCall')
        /\ ~CredentialPresent(config)
        /\ FetchCalled(lastCall')) =>
          /\ lastCall'.fetch.raised
          /\ lastCall'.fetch.requests = 0
          /\ lastCall'.raised
          /\ lastCall'.positions = <<>>
          /\ prices' = prices
          /\ cache' = cache]_vars

\* iex_cloud without a key: a positions request on a ledger of two rows raised
MissingCredentialWitness ==
    /\ lastCall.op = "get_positions"
    /\ config.PRICE_PROVIDER = "iex_cloud"
    /\ ~config.IEX_CLOUD_API_KEY
    /\ Len(holdings) >= 2
    /\ Len(lastCall.asked) >= 2
    /\ lastCall.raised
    /\ lastCall.fetch.requests = 0
    /\ prices = <<>>

----------------------------------------------------------------------------
(* Overlapping mutations: properties *)

\* C16: a mutation writes the whole store from the rows it read: outside
\* what its call targets, the store it leaves is the store it read, so what
\* another caller wrote between the read and the write is gone.  Overlapping
\* update_price calls for different symbols, and edit_holding overlapping
\* update_holdings or another edit_holding, do lose a writer's update.
LastWriteWinsWholeStore ==
    [][\A c \in Callers :
          (upd[c].pc = "mutating" /\ upd'[c].pc = "idle") =>
             LET u == upd[c]
                 OtherSymbol(r) == r.symbol # u.call.symbol
                 NotTargeted(r) == ~Targets(u.call, r)
             IN IF u.call.op = "update_price"
                THEN /\ SelectSeq(prices', OtherSymbol) = SelectSeq(u.prices, OtherSymbol)
                     /\ holdings' = holdings
                ELSE /\ SelectSeq(holdings', NotTargeted) = SelectSeq(u.holdings, NotTargeted)
                     /\ prices' = prices]_vars

\* an edit_holding write has just erased a row another caller wrote after
\* the edit had read the ledger, and earlier an update_price write erased
\* the record of another symbol in the same way
LostUpdateWitness ==
    /\ lastCall.op = "edit_holding"
    /\ lastCall.lost
    /\ lastCall.lostSoFar = {"holdings", "prices"}
    /\ Len(prices) = 1
    /\ \A i \in 1..Len(holdings) : holdings[i].symbol = lastCall.call.symbol

----------------------------------------------------------------------------
(* Cache lock: properties *)

\* the statements during which a provider request or the retry delay is in
\* progress
InNetworkIO(c) == upd[c].pc \in {"request", "sleep"}

\* thread c is the one that took the step
StepOf(c) == upd'[c] # upd[c]

\* C17: every read of the price cache (the hit/miss check) and every write
\* of it (each entry update, clear_price_cache) is a step of a thread that
\* holds the cache lock; at most one thread holds the lock; no thread holds
\* it while its provider request or its retry delay is in progress; so a
\* thread waiting for the lock while every other thread is in a request or
\* a delay finds the lock free.
CacheAccessUnderLock ==
    /\ [](/\ Cardinality({c \in Callers : upd[c].holds}) <= 1
          /\ \A c \in Callers : InNetworkIO(c) => ~upd[c].holds
          /\ \A c \in Callers :
                (/\ upd[c].pc = "with_check"
                 /\ \A d \in Callers \ {c} : InNetworkIO(d)) => ENABLED acquire(c))
    /\ [][/\ cache' # cache => \E c \in Callers : StepOf(c) /\ upd[c].holds
          /\ \A c \in Callers :
                (upd[c].pc = "check" /\ StepOf(c)) => upd[c].holds]_vars

\* a thread whose symbols are all cache hits takes the lock, checks and is
\* about to return without a request, while the other thread's request is
\* in progress
CacheAccessUnderLockWitness ==
    \E c, d \in Callers :
        /\ upd[c].pc = "return"
        /\ upd[c].requests = 0
        /\ upd[c].symbols_to_fetch = <<>>
        /\ DOMAIN upd[c].prices # {}
        /\ upd[d].pc = "request"
        /\ upd[d].attempt > 0

----------------------------------------------------------------------------
(* No single flight: properties *)

\* C18: the hit/miss check leaves the cache as it was, and a symbol that is
\* not a cache hit (no entry, or an expired one) is put among the symbols to
\* fetch and a request follows, also when another thread is already fetching
\* that symbol: both threads then issue a request for it.
NoSingleFlight ==
    [][\A c \in Callers :
          (upd[c].pc = "check" /\ StepOf(c)) =>
             /\ cache' = cache
             /\ \A x \in Elements(YfConsidered(upd[c].symbols, upd[c].skip_options)) :
                   (x \in InFlight(c) /\ ~CacheHit(cache, x, upd[c].now)) =>
                      /\ x \in Elements(upd'[c].symbols_to_fetch)
                      /\ upd'[c].pc = "request"]_vars

\* both threads missed the expired AAPL and the uncached BRK-B, and each
\* has had its own request for the two answered
NoSingleFlightWitness ==
    /\ AAPL \in DOMAIN cache
    /\ clock - cache[AAPL].timestamp >= CACHE_EXPIRY_SECONDS
    /\ BRK_B \notin DOMAIN cache
    /\ \A c \in Callers :
          /\ upd[c].pc = "with_store"
          /\ upd[c].answered
          /\ upd[c].requests >= 1
          /\ upd[c].symbols_to_fetch = <<AAPL, BRK_B>>

----------------------------------------------------------------------------
(* Provider requests of one call: properties *)

\* thread c is inside a call of fetch_prices
InFetch(c) == upd[c].pc \notin {"idle", "with_clear", "clear"}

\* symbols were passed to the provider's function and the call found every
\* one of them in the cache
AllHits(c) ==
    /\ upd[c].symbols # <<>>
    /\ upd[c].symbols_to_fetch = <<>>
    /\ \A x \in Elements(upd[c].symbols) : x \in DOMAIN upd[c].prices

\* every call that has started comes to its end
EveryCallReturns == \A c \in Callers : (upd[c].pc # "idle") ~> (upd[c].pc = "idle")

----------------------------------------------------------------------------
(* Option symbols: properties *)

\* C20: when fetch_prices is called with skip_options true and returns, a
\* requested symbol that matches the option heuristic (it ends in a digit,
\* or in CALL or PUT in any letter case) was not sent to the provider, has
\* no cache entry and has no key in the returned mapping.
OptionsDroppedWhenSkipping ==
    (lastCall.op = "fetch_prices" /\ lastCall.skip_options /\ ~lastCall.raised) =>
       \A x \in Elements(lastCall.symbols) :
          is_option(x) =>
             /\ x \notin Elements(lastCall.fetched)
             /\ x \notin DOMAIN cache
             /\ x \notin DOMAIN lastCall.prices

\* C21: when fetch_prices is called with skip_options false and returns,
\* every requested symbol, also one that matches the option heuristic, was
\* found in the cache or sent to the provider and has a key in the
\* returned mapping.
NothingDroppedWhenNotSkipping ==
    (lastCall.op = "fetch_prices" /\ ~lastCall.skip_options /\ ~lastCall.raised) =>
       \A x \in Elements(lastCall.symbols) : x \in DOMAIN lastCall.prices

----------------------------------------------------------------------------
(* The returned mapping and the cache: properties *)

\* the requested symbols that neither option test of the fetcher matches
PlainSymbols(call) ==
    {x \in Elements(call.symbols) : ~is_option(x) /\ ~HasSpecialChar(x)}

----------------------------------------------------------------------------
(* Returned and cached prices: properties *)

\* the 0.0 sentinel or a finite, strictly positive number
SentinelOrPositive(p) == p = 0 \/ (p > 0 /\ p < PosInf)

\* C23: whichever provider is configured, every price in the mapping that
\* fetch_prices returns and every price in the cache is the 0.0 sentinel or
\* a finite, strictly positive number.
FetchedPricesValid ==
    /\ \A x \in DOMAIN cache : SentinelOrPositive(cache[x].price)
    /\ (lastCall.op = "fetch_prices" /\ ~lastCall.raised) =>
          \A x \in DOMAIN lastCall.prices : SentinelOrPositive(lastCall.prices[x])

----------------------------------------------------------------------------
(* Blackout after exhausted retries: properties *)

\* the fetch that ends in the next state looks up every symbol of the
\* given record that is less than 600 seconds old, gets 0.0 for it and
\* sends no provider request for it
ServedFromBlackout(recorded) ==
    lastCall'.op = "fetch_prices" =>
       \A e \in recorded :
          (e[1] \in LookedUp(lastCall') /\ lastCall'.now - e[2] < 600) =>
             /\ e[1] \in DOMAIN lastCall'.prices
             /\ lastCall'.prices[e[1]] = 0
             /\ e[1] \notin Elements(lastCall'.fetched)

\* C24 as stated: after a fetch has exhausted its retries for a symbol at
\* time T, every further fetch of that symbol at a time t with t - T < 600
\* returns 0.0 and sends no provider request for it.
BlackoutAfterExhaustion == [][ServedFromBlackout(upd.exhausted)]_vars

\* C24 (amended): after a fetch has exhausted its retries for a symbol at
\* time T, every further fetch of that symbol at a time t with t - T < 600
\* returns 0.0 and sends no provider request for it, as long as
\* clear_price_cache has not been called since.
BlackoutUntilCleared == [][ServedFromBlackout(upd.kept)]_vars

\* 599 seconds after its three attempts failed, a further fetch of the
\* symbol has returned 0.0 without a request
BlackoutWitness ==
    /\ lastCall.op = "fetch_prices"
    /\ lastCall.now = 599
    /\ <<AAPL, 0>> \in upd.kept
    /\ AAPL \in DOMAIN lastCall.prices
    /\ lastCall.prices[AAPL] = 0
    /\ lastCall.requests = 0

----------------------------------------------------------------------------
(* Enrichment of the holdings read from the ledger: properties *)

\* the call that ends in the next state is get_portfolio_values on
\* read_holdings() as it is: the direct call, or GET /positions without
\* filters
EnrichesLedger(call) ==
    \/ call.op = "get_portfolio_values"
    \/ call.op = "get_positions" /\ call.args = NoFilters

\* the canonical symbols of the holdings
CanonicalSymbols(hs) == {normalize_symbol(hs[i].symbol) : i \in 1..Len(hs)}

\* the holdings whose symbol normalizes to c, in order
MembersOf(hs, c) ==
    LET InGroup(h) == normalize_symbol(h.symbol) = c
    IN SelectSeq(hs, InGroup)

\* the rows of the price store for symbol c
RecordsOf(prs, c) ==
    LET ForSymbol(r) == r.symbol = c
    IN SelectSeq(prs, ForSymbol)

\* the entry of the cache for symbol c, if any
EntryOf(ch, c) == IF c \in DOMAIN ch THEN <<ch[c]>> ELSE <<>>

\* C25: a get_portfolio_values call without force_refresh passes to
\* fetch_prices exactly the canonical symbols whose group has a last_price
\* of None or 0, each once; for every other canonical symbol the returned
\* row has the group's last_price as its price, the symbol is not passed to
\* the fetcher, its cache entry is left as it was and the price store rows
\* of that symbol are left as they were.
NonForceFetchesOnlyMissing ==
    [][(EnrichesLedger(lastCall') /\ ~lastCall'.force_refresh) =>
          LET hs == read_holdings(holdings, prices)
              Known(c) == MembersOf(hs, c)[1].last_price \notin {None, 0}
          IN /\ Elements(lastCall'.asked) =
                   {c \in CanonicalSymbols(hs) : ~Known(c)}
             /\ Len(lastCall'.asked) = Cardinality(Elements(lastCall'.asked))
             /\ \A c \in CanonicalSymbols(hs) :
                   Known(c) =>
                      /\ c \notin DOMAIN lastCall'.fetch.prices
                      /\ c \notin Elements(lastCall'.fetch.fetched)
                      /\ EntryOf(cache', c) = EntryOf(cache, c)
                      /\ RecordsOf(prices', c) = RecordsOf(prices, c)
                      /\ ~lastCall'.raised =>
                            \E i \in 1..Len(lastCall'.positions) :
                               /\ lastCall'.positions[i].symbol = get_display_symbol(c)
                               /\ lastCall'.positions[i].price =
                                     MembersOf(hs, c)[1].last_price]_vars

\* a call without force_refresh reused the stored price of AAPL and passed
\* only BRK.B to the fetcher, which made a request for it
NonForceFetchesWitness ==
    /\ EnrichesLedger(lastCall)
    /\ ~lastCall.force_refresh
    /\ lastCall.asked = <<BRK_B>>
    /\ lastCall.fetch.requests > 0
    /\ \E i \in 1..Len(lastCall.positions) :
          /\ lastCall.positions[i].symbol = AAPL
          /\ lastCall.positions[i].price = 150125
          /\ lastCall.positions[i].last_price = 150125

----------------------------------------------------------------------------
(* Forced refresh: properties *)

\* C26: a get_portfolio_values call with force_refresh passes every
\* canonical symbol of the holdings to fetch_prices, each once, whatever
\* last_price the holdings carry, and when it returns the price store has,
\* for every canonical symbol, a record whose last_price is the price of the
\* returned row and whose last_price_time is the time of the call.
ForcedRefreshPersistsAll ==
    [][(lastCall'.op = "get_portfolio_values" /\ lastCall'.force_refresh) =>
          LET symbols == CanonicalSymbols(read_holdings(holdings, prices))
          IN /\ Elements(lastCall'.asked) = symbols
             /\ Len(lastCall'.asked) = Cardinality(symbols)
             /\ ~lastCall'.raised =>
                   /\ Len(lastCall'.positions) = Cardinality(symbols)
                   /\ \A c \in symbols :
                         \E i \in 1..Len(lastCall'.positions), k \in 1..Len(prices') :
                            /\ lastCall'.positions[i].symbol = get_display_symbol(c)
                            /\ prices'[k].symbol = c
                            /\ prices'[k].last_price = lastCall'.positions[i].price
                            /\ prices'[k].last_price_time = lastCall'.now]_vars

\* 599 seconds after AAPL was priced at 150.125 (its cache entry is of time
\* 0), a forced refresh asked for AAPL again and the record of AAPL has the
\* time of that call
ForcedRefreshWitness ==
    /\ lastCall.op = "get_portfolio_values"
    /\ lastCall.force_refresh
    /\ lastCall.now = 599
    /\ AAPL \in DOMAIN cache
    /\ cache[AAPL] = [price |-> 150125, timestamp |-> 0]
    /\ AAPL \in Elements(lastCall.asked)
    /\ BRK_B \in Elements(lastCall.asked)
    /\ \E k \in 1..Len(prices) :
          /\ prices[k].symbol = AAPL
          /\ prices[k].last_price = 150125
          /\ prices[k].last_price_time = 599

----------------------------------------------------------------------------
(* Join of holdings and price records: properties *)

\* C27: once the price store has a record with a non-zero price for a
\* canonical symbol, a get_portfolio_values call without force_refresh on
\* read_holdings() sends no provider request for that symbol and returns its
\* row with the stored price, whatever spelling the holdings of that symbol
\* are stored under.
PersistedPriceReusedByCanonical ==
    [][(EnrichesLedger(lastCall') /\ ~lastCall'.force_refresh /\ ~lastCall'.raised) =>
          \A c \in CanonicalSymbols(holdings) :
             \A k \in 1..Len(prices) :
                (prices[k].symbol = c /\ prices[k].last_price > 0
                   /\ prices[k].last_price < PosInf) =>
                   /\ c \notin Elements(lastCall'.fetch.fetched)
                   /\ \E i \in 1..Len(lastCall'.positions) :
                         /\ lastCall'.positions[i].symbol = get_display_symbol(c)
                         /\ lastCall'.positions[i].price = prices[k].last_price]_vars

----------------------------------------------------------------------------
(* Grouping by canonical symbol: properties *)

\* the sum of the shares of a sequence of holdings
TotalShares(hs) == SumShares(hs, 1..Len(hs))

\* C28: a get_portfolio_values call that returns has as many rows as its
\* input holdings have distinct canonical symbols; for each canonical symbol
\* there is a row whose symbol is its display form and whose shares are the
\* sum of the shares of the input holdings that normalize to it; the shares
\* of the rows add up to the shares of the input.
OneRowPerCanonicalSymbol ==
    [][(EnrichesLedger(lastCall') /\ ~lastCall'.raised) =>
          LET input == read_holdings(holdings, prices)
              rows == lastCall'.positions
          IN /\ Len(rows) = Cardinality(CanonicalSymbols(input))
             /\ \A c \in CanonicalSymbols(input) :
                   \E i \in 1..Len(rows) :
                      /\ rows[i].symbol = get_display_symbol(c)
                      /\ rows[i].shares = TotalShares(MembersOf(input, c))
             /\ TotalShares(rows) = TotalShares(input)]_vars

\* an alias and the canonical spelling were added up in one row
OneRowPerCanonicalWitness ==
    /\ lastCall.op = "get_portfolio_values"
    /\ ~lastCall.raised
    /\ Len(holdings) = 3
    /\ holdings[2].symbol = BRKB
    /\ holdings[3].symbol = BRK_B
    /\ Len(lastCall.positions) = 2
    /\ \E i \in 1..2 : /\ lastCall.positions[i].symbol = BRK_B
                       /\ lastCall.positions[i].shares = 15

\* the group of canonical symbol c carries, in the rows of the call, the
\* last_updated, last_price and last_price_time of the member picked: the
\* row has the member's last_updated; the symbol is passed to fetch_prices
\* when the call forces a refresh or the member's last_price is None or 0,
\* and otherwise the row has the member's last_price and last_price_time
CarriesMetadataOf(call, c, member) ==
    \E i \in 1..Len(call.positions) :
       LET row == call.positions[i]
       IN /\ row.symbol = get_display_symbol(c)
          /\ row.last_updated = member.last_updated
          /\ IF call.force_refresh \/ member.last_price \in {None, 0}
             THEN c \in Elements(call.asked)
             ELSE /\ c \notin Elements(call.asked)
                  /\ row.last_price = member.last_price
                  /\ row.last_price_time = member.last_price_time

\* C29 as stated: the grouped record of every canonical symbol carries the
\* last_updated, last_price and last_price_time of the last-seen member of
\* its group.
GroupCarriesLastSeenMetadata ==
    [][(EnrichesLedger(lastCall') /\ ~lastCall'.raised) =>
          LET input == read_holdings(holdings, prices)
          IN \A c \in CanonicalSymbols(input) :
                LET members == MembersOf(input, c)
                IN CarriesMetadataOf(lastCall', c, members[Len(members)])]_vars

\* C29: the grouped record of every canonical symbol carries the
\* last_updated, last_price and last_price_time of the first-seen member of
\* its group.
GroupCarriesFirstSeenMetadata ==
    [][(EnrichesLedger(lastCall') /\ ~lastCall'.raised) =>
          LET input == read_holdings(holdings, prices)
          IN \A c \in CanonicalSymbols(input) :
                LET members == MembersOf(input, c)
                IN CarriesMetadataOf(lastCall', c, members[1])]_vars

\* a group whose first member BRK.B has a stored price and a later
\* last_updated than its last member BRKB, which has no price record: the
\* row reuses the stored price and is not fetched
GroupCarriesMetadataWitness ==
    /\ lastCall.op = "get_portfolio_values"
    /\ ~lastCall.raised
    /\ ~lastCall.force_refresh
    /\ Len(holdings) = 2
    /\ holdings[1].symbol = BRK_B /\ holdings[1].last_updated = 1
    /\ holdings[2].symbol = BRKB /\ holdings[2].last_updated = 0
    /\ lastCall.asked = <<>>
    /\ Len(lastCall.positions) = 1
    /\ lastCall.positions[1].last_updated = 1
    /\ lastCall.positions[1].last_price = 150125
    /\ lastCall.positions[1].shares = 15

----------------------------------------------------------------------------
(* Price store: lifetime of the records *)

\* the symbols that have a record in the price store
RecordedSymbols(pfile) == {pfile[i].symbol : i \in 1..Len(pfile)}

\* C30: whatever the operations and however they overlap, no step removes a
\* symbol from the set of symbols that have a record in the price store.
PriceRecordsNeverDeleted ==
    [][RecordedSymbols(prices) \subseteq RecordedSymbols(prices')]_vars

----------------------------------------------------------------------------
(* Symbol view: most recent update *)

\* C31: every row group_by_symbol returns has as its last_updated a
\* last_updated of an input row with that symbol than which no input row
\* with that symbol has a greater one by string comparison.
GroupKeepsLatestUpdate ==
    lastCall.op = "group_by_symbol" =>
        LET hs == lastCall.holdings
            out == lastCall.result
        IN \A k \in 1..Len(out) :
              LET rows == RowsOf(hs, out[k].symbol)
              IN /\ \E i \in rows : hs[i].last_updated = out[k].last_updated
                 /\ \A i \in rows :
                       ~StrGreater(isoformat(hs[i].last_updated),
                                   isoformat(out[k].last_updated))

\* a group whose second row, written at 10, is later than its first and its
\* third, written at 9
GroupKeepsLatestWitness ==
    /\ lastCall.op = "group_by_symbol"
    /\ Len(lastCall.holdings) = 3
    /\ \A i \in 1..3 : lastCall.holdings[i].symbol = BRKB
    /\ lastCall.holdings[1].last_updated = 9
    /\ lastCall.holdings[2].last_updated = 10
    /\ lastCall.holdings[3].last_updated = 9
    /\ Len(lastCall.result) = 1
    /\ lastCall.result[1].last_updated = 10

----------------------------------------------------------------------------
(* GET /positions: what the call leaves alone *)

\* C32: a get_positions call, whatever its filters and whatever the provider
\* does, leaves the holdings ledger as it was and leaves every holding of
\* the list read from it, as passed on to get_portfolio_values, as it was;
\* the configuration is untouched too.
GetPositionsKeepsLedger ==
    [][lastCall'.op = "get_positions" =>
          /\ holdings' = holdings
          /\ config' = config
          /\ lastCall'.argument_after = lastCall'.argument
          /\ \/ lastCall'.args.group_by
             \/ lastCall'.argument =
                   filter_holdings(read_holdings(holdings, prices),
                                   lastCall'.args.include, lastCall'.args.exclude,
                                   lastCall'.args.hide_options)]_vars

\* a call with a tag filter on a ledger of two tags fetched a price for the
\* alias BRKB and wrote it to the price store
GetPositionsKeepsLedgerWitness ==
    /\ lastCall.op = "get_positions"
    /\ lastCall.args.include = {"broker1"}
    /\ ~lastCall.raised
    /\ \E i, j \in 1..Len(holdings) :
          /\ holdings[i].tag = "broker1" /\ holdings[i].symbol = BRKB
          /\ holdings[j].tag = "broker2"
    /\ lastCall.asked = <<BRK_B>>
    /\ \E k \in 1..Len(prices) :
          prices[k].symbol = BRK_B /\ prices[k].last_price = 150125
    /\ \E i \in 1..Len(lastCall.argument) : lastCall.argument[i].symbol = BRKB

----------------------------------------------------------------------------
(* Stored prices on the GET /positions path *)

\* C33: when the price store holds a price for a symbol that is its own
\* canonical form, a get_positions call whose filters keep a holding stored
\* under that symbol sends no provider request for the symbol and every row
\* it returns for the symbol has the stored price, whatever the time and
\* whatever the provider answers.
StoredPriceNeverRefreshed ==
    [][(lastCall'.op = "get_positions" /\ ~lastCall'.raised) =>
          \A k \in 1..Len(prices) :
             LET c == prices[k].symbol
                 p == prices[k].last_price
             IN (/\ normalize_symbol(c) = c
                 /\ p > 0 /\ p < PosInf
                 /\ \E i \in 1..Len(lastCall'.argument) :
                       lastCall'.argument[i].symbol = c) =>
                   /\ c \notin Elements(lastCall'.fetch.fetched)
                   /\ \A i \in 1..Len(lastCall'.positions) :
                         lastCall'.positions[i].symbol = get_display_symbol(c) =>
                            lastCall'.positions[i].price = p]_vars

----------------------------------------------------------------------------
(* Failed refetch of an expired quote *)

\* C34: when a forced get_portfolio_values call fetches a symbol whose cache
\* entry holds a positive price and is older than CACHE_EXPIRY_SECONDS, and
\* the fetch exhausts its retries, the entry becomes price 0 with the time of
\* the call, and a price record of the symbol with a price other than 0
\* becomes a record with price 0: the symbol is left with no record of
\* another price.
FailedRefetchDropsQuote ==
    [][(/\ lastCall'.op = "get_portfolio_values"
        /\ lastCall'.force_refresh
        /\ ~lastCall'.raised
        /\ lastCall'.fetch.exhausted) =>
          \A c \in DOMAIN cache :
             (/\ cache[c].price > 0
              /\ clock - cache[c].timestamp > CACHE_EXPIRY_SECONDS
              /\ c \in Elements(lastCall'.fetch.fetched)) =>
                /\ cache'[c] = [price |-> 0, timestamp |-> clock]
                /\ (\E k \in 1..Len(prices) :
                       prices[k].symbol = c /\ prices[k].last_price \notin {None, 0}) =>
                      /\ \E k \in 1..Len(prices') :
                            /\ prices'[k].symbol = c
                            /\ prices'[k].last_price = 0
                            /\ prices'[k].last_price_time = clock
                      /\ \A k \in 1..Len(prices') :
                            prices'[k].symbol = c => prices'[k].last_price = 0]_vars

\* AAPL was fetched and stored at 150.125 at time 0; the forced call at 601
\* exhausted its retries and left 0 in the cache and in the price store
FailedRefetchWitness ==
    /\ config.PRICE_PROVIDER = "yfinance"
    /\ lastCall.op = "get_portfolio_values"
    /\ lastCall.force_refresh
    /\ lastCall.fetch.exhausted
    /\ lastCall.now = CACHE_EXPIRY_SECONDS + 1
    /\ lastCall.argument[1].symbol = AAPL
    /\ lastCall.argument[1].last_price = 150125
    /\ lastCall.argument[1].last_price_time = 0
    /\ cache[AAPL] = [price |-> 0, timestamp |-> CACHE_EXPIRY_SECONDS + 1]
    /\ \E k \in 1..Len(prices) :
          /\ prices[k].symbol = AAPL
          /\ prices[k].last_price = 0
          /\ prices[k].last_price_time = CACHE_EXPIRY_SECONDS + 1

====
